---- MODULE Spec2Model ----
(***************************************************************************)
(* The persistent model-serving bridges of node-red-contrib-condition-     *)
(* monitoring: the streaming bridge (nodes/python_bridge.py, JSON lines on *)
(* stdin/stdout) and the HTTP bridge (nodes/max_bridge.py, Flask routes).  *)
(* One run of the model is one run of one of the two processes; `bridge`   *)
(* says which.  Two further parts follow one tensor on its way to a        *)
(* backend: the Coral helper script (nodes/coral_inference.py), run once   *)
(* per inference, and the input preparation of the bridges' predict code.  *)
(***************************************************************************)
EXTENDS Integers, Sequences, FiniteSets, TLC

\* ------------------------------------------------------------------ bounds
\* Input lines the streaming bridge reads in one run.
MaxLines == 3
\* Shutdown acknowledgments a run may write (signals that reach the handler
\* after it has already written one).
MaxAcks == 2
\* HTTP requests handled in one run.
MaxReqs == 3
\* The largest dimension of a tensor shape.
MaxDim == 3
\* The largest rank of an input given to predict.
MaxRank == 3

\* ------------------------------------------------------------ JSON values
\* Python's None: the value of msg.get(k) for an absent field.
None == "<None>"
\* A JSON array given where a string is expected (unhashable in Python).
JsonList == "[1]"
\* str(v) as an f-string renders it: "None" for None, a string as it is.
Str(v) == IF v = None THEN "None" ELSE v
\* Python truthiness of a field value: None and "" are falsy.
Falsy(v) == v = None \/ v = ""
Hashable(v) == v # JsonList

\* ------------------------------------------------------------------ paths
\* A path is <<directory, stem, extension>>; <<>> is None (no model_path).
NoPath == <<>>
PathPkl == <<"models/a/", "m", ".pkl">>
PathOnnx == <<"models/", "x", ".onnx">>
PathGone == <<"models/", "gone", ".tflite">>
PathH5 == <<"models/", "k", ".H5">>
PathGoneBin == <<"models/", "gone", ".bin">>
\* Other files with the basenames of PathPkl and PathOnnx.
PathPklB == <<"models/b/", "m", ".pkl">>
PathOnnxB == <<"models/b/", "x", ".onnx">>
Paths == {PathPkl, PathOnnx, PathGone, PathH5, PathGoneBin, PathPklB, PathOnnxB}
\* The files present on disk.
ExistingFiles == {PathPkl, PathOnnx, PathH5, PathPklB, PathOnnxB}
PathStr(p) == IF p = NoPath THEN "None" ELSE p[1] \o p[2] \o p[3]
\* A basename that keeps the directory: the whole path.
basename_KeepsDirectory(p) == p[1] \o p[2] \o p[3]
basename(p) == p[2] \o p[3]
splitext1(p) == p[3]
\* lower() left out: the extension is compared as it is written.
lower_AsWritten(s) == s
lower(s) ==
  CASE s = ".PKL" -> ".pkl"
    [] s = ".H5" -> ".h5"
    [] s = ".ONNX" -> ".onnx"
    [] OTHER -> s

\* --------------------------------------------------- insertion-ordered dict
\* A Python dict is a sequence of [key, value] in insertion order.
DictHas(d, k) == \E i \in 1..Len(d) : d[i].key = k
DictGet(d, k) == d[CHOOSE i \in 1..Len(d) : d[i].key = k].value
DictSet(d, k, v) ==
  IF DictHas(d, k)
  THEN [i \in 1..Len(d) |-> IF d[i].key = k THEN [key |-> k, value |-> v] ELSE d[i]]
  ELSE Append(d, [key |-> k, value |-> v])
DictDel(d, k) ==
  LET keep(e) == e.key # k
  IN SelectSeq(d, keep)
DictKeys(d) == [i \in 1..Len(d) |-> d[i].key]

VARIABLES
  bridge,        \* "stream" or "http": which process this run is
  \* streaming bridge (python_bridge.py)
  pc,            \* position of main()
  hpc,           \* position of the signal handler: "none", "ack", "exit"
  installed,     \* signals whose handler is handle_sigterm
  inLog,         \* the lines read from stdin so far
  cur,           \* the line being handled
  output,        \* the lines written to stdout
  models,        \* _models
  model_types,   \* _model_types
  calls,         \* backend invocations, in order
  \* HTTP bridge (max_bridge.py)
  MAX_AVAILABLE,      \* set once at import
  ONNX_AVAILABLE,     \* set once at import
  serving,            \* main() has reached the server's run()
  inference_session,  \* _inference_session: None, "gpu" or "cpu"
  max_models,         \* _models
  stats,              \* _stats
  requests,           \* the requests handled so far
  responses,          \* the responses returned so far
  max_calls,          \* backend invocations, in order
  threads,            \* the server's worker threads: what each is doing
  \* one tensor on its way to a backend
  coral,              \* one run of coral_inference.py
  feed                \* one input prepared by a bridge's predict code

streamVars == <<pc, hpc, installed, inLog, cur, output, models, model_types, calls>>
httpVars == <<MAX_AVAILABLE, ONNX_AVAILABLE, serving, inference_session, max_models,
              stats, requests, responses, max_calls, threads>>
tensorVars == <<coral, feed>>
vars == <<bridge, streamVars, httpVars, tensorVars>>

\* ------------------------------------------------------------- responses
NoResult == [none |-> TRUE]
send_response(msg_id, success, result, error) ==
  [id |-> msg_id, success |-> success, result |-> result, error |-> error]

\* ----------------------------------------------------------- input lines
RequestIds == <<"r1", "r2", "r3", "r4", "r5", "r6">>
NoLine == [kind |-> "none"]
Msg(id, command, model_path, model_id) ==
  [kind |-> "object", id |-> id, command |-> command,
   model_path |-> model_path, model_id |-> model_id]
\* The lines the orchestrator may send as line n: blank, not JSON, JSON that
\* is no object, and objects with present, absent and wrongly typed fields.
Lines(n) ==
  LET rid == RequestIds[n]
  IN {[kind |-> "blank"], [kind |-> "badjson"], [kind |-> "nonobject"]}
     \cup {Msg(rid, "load_model", p, "m") :
             p \in {PathPkl, PathH5, PathGone, PathGoneBin}}
     \cup {Msg(rid, "load_model", p, None) : p \in {PathPkl, NoPath}}
     \cup {Msg(rid, "load_model", PathPklB, "")}
     \cup {Msg(rid, "predict", NoPath, m) : m \in {"m", "m.pkl", JsonList}}
     \cup {Msg(rid, "unload_model", NoPath, m) : m \in {"m", None}}
     \cup {Msg(rid, c, NoPath, None) : c \in {"status", "shutdown", "ping", "bogus"}}
     \cup {Msg(None, None, NoPath, None)}

\* msg.get(key, default)
Get(v, default) == IF v = None THEN default ELSE v

\* ------------------------------------------------- handlers (python_bridge)
\* A handler's outcome: the responses it wrote, the stores after it, the
\* backend calls it made, and the exception it let escape ("" for none).
Outcome(out, m, t, c, exc) ==
  [out |-> out, models |-> m, model_types |-> t, calls |-> c, exc |-> exc]

ModelTypeOfExt(ext) ==
  CASE ext \in {".keras", ".h5"} -> "keras"
    [] ext \in {".pkl", ".joblib"} -> "sklearn"
    [] ext = ".tflite" -> "tflite"
    [] OTHER -> "unsupported"

\* What a call into a backend library does: it returns, it raises, or the
\* import of the library fails.
BackendOutcomes == {"returns", "raises", "no_module"}

\* The package whose import the loader of an extension needs last.
ModuleOfExt(ext) ==
  CASE ext \in {".keras", ".h5"} -> "keras"
    [] ext = ".joblib" -> "joblib"
    [] ext = ".tflite" -> "tensorflow"
    [] OTHER -> "pickle"

\* str(e) of the exception a loader raised. A missing file makes open() (and
\* the libraries) name the path; a failed import names the module; a file
\* that is there and cannot be read gives the library's own text.
LoaderError(how, ext, model_path) ==
  IF how = "no_module"
  THEN "No module named '" \o ModuleOfExt(ext) \o "'"
  ELSE IF model_path \notin ExistingFiles
  THEN IF ModelTypeOfExt(ext) = "sklearn"
       THEN "[Errno 2] No such file or directory: '" \o PathStr(model_path) \o "'"
       ELSE "Could not open '" \o PathStr(model_path) \o "'."
  ELSE "could not load model data"

\* handle_load_model without the already-loaded check: a duplicate load
\* calls the backend again and replaces the stored model.
handle_load_model_Reloads(msg_id, model_path, model_id0, how) ==
  IF model_path = NoPath
  THEN Outcome(<<>>, models, model_types, calls, "TypeError")
  ELSE
  LET model_id == IF Falsy(model_id0) THEN basename(model_path) ELSE model_id0
      ext == lower(splitext1(model_path))
      model_type == ModelTypeOfExt(ext)
      call == [op |-> "load", backend |-> model_type, path |-> model_path,
               model_id |-> model_id, ok |-> (how = "returns"), at |-> Len(inLog)]
      model == [path |-> model_path, serial |-> Len(calls) + 1]
  IN
  IF ~Hashable(model_id)
  THEN Outcome(<<>>, models, model_types, calls, "TypeError")
  ELSE IF model_type = "unsupported"
  THEN Outcome(<<send_response(msg_id, FALSE, NoResult,
                   "Unsupported model format: " \o ext)>>,
               models, model_types, calls, "")
  ELSE IF how # "returns"
  THEN Outcome(<<send_response(msg_id, FALSE, NoResult,
                   LoaderError(how, ext, model_path))>>,
               models, model_types, Append(calls, call), "")
  ELSE Outcome(<<send_response(msg_id, TRUE,
                   [message |-> "Model " \o Str(model_id) \o " loaded successfully",
                    model_id |-> model_id, model_type |-> model_type], None)>>,
               DictSet(models, model_id, model),
               DictSet(model_types, model_id, model_type),
               Append(calls, call), "")

\* handle_load_model; `how` is what the backend loader does (it raises when
\* the file is missing, and may raise for a file it cannot read or for a
\* package that is not installed).
handle_load_model(msg_id, model_path, model_id0, how) ==
  IF Falsy(model_id0) /\ model_path = NoPath
  THEN Outcome(<<>>, models, model_types, calls, "TypeError")
  ELSE
  LET model_id == IF Falsy(model_id0) THEN basename(model_path) ELSE model_id0
  IN
  IF ~Hashable(model_id)
  THEN Outcome(<<>>, models, model_types, calls, "TypeError")
  ELSE IF DictHas(models, model_id)
  THEN Outcome(<<send_response(msg_id, TRUE,
                   [message |-> "Model " \o Str(model_id) \o " already loaded"], None)>>,
               models, model_types, calls, "")
  ELSE IF model_path = NoPath
  THEN Outcome(<<>>, models, model_types, calls, "TypeError")
  ELSE
  LET ext == lower(splitext1(model_path))
      model_type == ModelTypeOfExt(ext)
      call == [op |-> "load", backend |-> model_type, path |-> model_path,
               model_id |-> model_id, ok |-> (how = "returns"), at |-> Len(inLog)]
      model == [path |-> model_path, serial |-> Len(calls) + 1]
  IN
  IF model_type = "unsupported"
  THEN Outcome(<<send_response(msg_id, FALSE, NoResult,
                   "Unsupported model format: " \o ext)>>,
               models, model_types, calls, "")
  ELSE IF how # "returns"
  THEN Outcome(<<send_response(msg_id, FALSE, NoResult,
                   LoaderError(how, ext, model_path))>>,
               models, model_types, Append(calls, call), "")
  ELSE Outcome(<<send_response(msg_id, TRUE,
                   [message |-> "Model " \o Str(model_id) \o " loaded successfully",
                    model_id |-> model_id, model_type |-> model_type], None)>>,
               DictSet(models, model_id, model),
               DictSet(model_types, model_id, model_type),
               Append(calls, call), "")

\* handle_predict; `how` is whether the conversion of input_data and the
\* backend inference return (either may raise; both are inside the try).
handle_predict(msg_id, model_id, how) ==
  IF ~Hashable(model_id)
  THEN Outcome(<<>>, models, model_types, calls, "TypeError")
  ELSE IF ~DictHas(models, model_id)
  THEN Outcome(<<send_response(msg_id, FALSE, NoResult,
                   "Model " \o Str(model_id) \o " not loaded")>>,
               models, model_types, calls, "")
  ELSE
  LET model == DictGet(models, model_id)
      model_type == DictGet(model_types, model_id)
      call == [op |-> "predict", backend |-> model_type, path |-> model.path,
               model_id |-> model_id, ok |-> (how = "returns"), at |-> Len(inLog)]
  IN
  IF model_type \notin {"keras", "sklearn", "tflite"}
  THEN Outcome(<<send_response(msg_id, FALSE, NoResult,
                   "Unknown model type: " \o model_type)>>,
               models, model_types, calls, "")
  ELSE IF how # "returns"
  THEN Outcome(<<send_response(msg_id, FALSE, NoResult, "InferenceError")>>,
               models, model_types, Append(calls, call), "")
  ELSE Outcome(<<send_response(msg_id, TRUE, [prediction |-> model.serial], None)>>,
               models, model_types, Append(calls, call), "")

\* handle_unload_model that answers success and forgets to delete the model.
handle_unload_model_KeepsModel(msg_id, model_id) ==
  IF ~Hashable(model_id)
  THEN Outcome(<<>>, models, model_types, calls, "TypeError")
  ELSE IF DictHas(models, model_id)
  THEN Outcome(<<send_response(msg_id, TRUE,
                   [message |-> "Model " \o Str(model_id) \o " unloaded"], None)>>,
               models, model_types, calls, "")
  ELSE Outcome(<<send_response(msg_id, FALSE, NoResult,
                   "Model " \o Str(model_id) \o " not loaded")>>,
               models, model_types, calls, "")

\* handle_unload_model that deletes the model and leaves its type behind.
handle_unload_model_KeepsType(msg_id, model_id) ==
  IF ~Hashable(model_id)
  THEN Outcome(<<>>, models, model_types, calls, "TypeError")
  ELSE IF DictHas(models, model_id)
  THEN Outcome(<<send_response(msg_id, TRUE,
                   [message |-> "Model " \o Str(model_id) \o " unloaded"], None)>>,
               DictDel(models, model_id), model_types, calls, "")
  ELSE Outcome(<<send_response(msg_id, FALSE, NoResult,
                   "Model " \o Str(model_id) \o " not loaded")>>,
               models, model_types, calls, "")

\* handle_unload_model
handle_unload_model(msg_id, model_id) ==
  IF ~Hashable(model_id)
  THEN Outcome(<<>>, models, model_types, calls, "TypeError")
  ELSE IF DictHas(models, model_id)
  THEN Outcome(<<send_response(msg_id, TRUE,
                   [message |-> "Model " \o Str(model_id) \o " unloaded"], None)>>,
               DictDel(models, model_id), DictDel(model_types, model_id), calls, "")
  ELSE Outcome(<<send_response(msg_id, FALSE, NoResult,
                   "Model " \o Str(model_id) \o " not loaded")>>,
               models, model_types, calls, "")

\* handle_status (the installed packages and the Python version, which no
\* command changes, are left out of the result)
handle_status(msg_id) ==
  Outcome(<<send_response(msg_id, TRUE,
              [loaded_models |-> DictKeys(models), model_types |-> model_types], None)>>,
          models, model_types, calls, "")

\* Dispatch without its final else: an unknown command is taken for a ping.
Dispatch_UnknownIsPing(msg_id, command, msg, how) ==
  CASE command = "load_model" -> handle_load_model(msg_id, msg.model_path, msg.model_id, how)
    [] command = "predict" -> handle_predict(msg_id, msg.model_id, how)
    [] command = "unload_model" -> handle_unload_model(msg_id, msg.model_id)
    [] command = "status" -> handle_status(msg_id)
    [] command = "shutdown" ->
         Outcome(<<send_response(msg_id, TRUE, [message |-> "Shutting down"], None)>>,
                 models, model_types, calls, "")
    [] OTHER ->
         Outcome(<<send_response(msg_id, TRUE, [message |-> "pong"], None)>>,
                 models, model_types, calls, "")

\* The body of main()'s inner try for one parsed object.
Dispatch(msg_id, command, msg, how) ==
  CASE command = "load_model" -> handle_load_model(msg_id, msg.model_path, msg.model_id, how)
    [] command = "predict" -> handle_predict(msg_id, msg.model_id, how)
    [] command = "unload_model" -> handle_unload_model(msg_id, msg.model_id)
    [] command = "status" -> handle_status(msg_id)
    [] command = "shutdown" ->
         Outcome(<<send_response(msg_id, TRUE, [message |-> "Shutting down"], None)>>,
                 models, model_types, calls, "")
    [] command = "ping" ->
         Outcome(<<send_response(msg_id, TRUE, [message |-> "pong"], None)>>,
                 models, model_types, calls, "")
    [] OTHER ->
         Outcome(<<send_response(msg_id, FALSE, NoResult,
                     "Unknown command: " \o Str(command))>>,
                 models, model_types, calls, "")

\* What a backend call can do given the disk and the packages: it returns
\* only for a file that is there; the lazy import fails only in the loaders
\* that import a package (pickle, for .pkl, is always there).
BackendMayReturn(msg, how) ==
  \/ how = "raises"
  \/ /\ how = "returns"
     /\ msg.command # "load_model" \/ msg.model_path \in ExistingFiles
  \/ /\ how = "no_module"
     /\ msg.command = "load_model" /\ msg.model_path # NoPath
     /\ lower(splitext1(msg.model_path)) # ".pkl"

\* ======================================================= HTTP bridge
\* ------------------------------------------------------------ rationals
\* avg_inference_time_ms is kept exactly, as <<numerator, denominator>> in
\* lowest terms.
RECURSIVE Gcd(_, _)
Gcd(a, b) == IF b = 0 THEN a ELSE Gcd(b, a % b)
Rat(a, b) ==
  LET g == Gcd(a, b)
  IN IF a = 0 THEN <<0, 1>> ELSE <<a \div g, b \div g>>
\* (avg * (n - 1) + x) / n
MeanUpdate(avg, n, x) == Rat(avg[1] * (n - 1) + x * avg[2], avg[2] * n)

\* round(x, 2), in hundredths
Round2(q) == (200 * q[1] + q[2]) \div (2 * q[2])

\* The latencies (ms) a backend call may take.
Latencies == {1, 3}

\* --------------------------------------------------------------- requests
Req(route, model_path, model_id, backend, data) ==
  [route |-> route, model_path |-> model_path, model_id |-> model_id,
   backend |-> backend, data |-> data]
\* input_data / inputs: None (absent), "empty" ([]), or "rows" (three samples)
HttpRequests ==
  {Req("/load", p, "m", "auto", None) : p \in {PathOnnx, PathGone, NoPath}}
  \cup {Req("/load", p, None, "auto", None) : p \in {PathOnnx, NoPath}}
  \cup {Req("/load", PathOnnxB, "", "auto", None)}
  \cup {Req("/load", PathOnnx, "m", b, None) : b \in {"max", "onnx"}}
  \cup {Req("/predict", NoPath, "m", None, d) : d \in {None, "rows"}}
  \cup {Req("/predict", NoPath, None, None, "rows")}
  \cup {Req("/unload", NoPath, m, None, None) : m \in {None, "m"}}
  \cup {Req("/batch_predict", NoPath, "m", None, d) : d \in {"empty", "rows"}}
  \cup {Req(r, NoPath, None, None, None) : r \in {"/status", "/health"}}
NoBody == [none |-> TRUE]
BatchLen(d) == IF d = "rows" THEN 3 ELSE 0

\* What the backends do when called: whether creating a MAX session gives a
\* GPU session, a CPU session or fails; whether session.load returns; whether
\* ONNX Runtime builds the session ("ok"), fails to ("raise"), or builds it
\* and fails while describing it ("raise_describe"); whether inference
\* returns; how long the call takes.
Env(sess, maxOk, onnx, inferOk, ms) ==
  [sess |-> sess, maxOk |-> maxOk, onnx |-> onnx, inferOk |-> inferOk, ms |-> ms]
\* The backend behaviours a request can meet; what its route never calls
\* is held at one value.
Envs(route) ==
  CASE route = "/load" ->
         {Env(s, a, o, TRUE, 1) : s \in {None, "gpu", "cpu"}, a \in BOOLEAN,
                                  o \in {"ok", "raise", "raise_describe"}}
    [] route \in {"/predict", "/batch_predict"} ->
         {Env(None, TRUE, "ok", i, t) : i \in BOOLEAN, t \in Latencies}
    [] OTHER -> {Env(None, TRUE, "ok", TRUE, 1)}

\* --------------------------------------------------------------- handlers
\* A handler's result: status, body, and the module state after it.
Result(status, body, m, st, sess, c) ==
  [status |-> status, body |-> body, max_models |-> m, stats |-> st,
   inference_session |-> sess, max_calls |-> c]

\* An except clause that answers 500 and forgets errors_total.
Error500_NoCount(e, m, st, sess, c) ==
  Result(500, [success |-> FALSE, error |-> e], m, st, sess, c)

Error500(e, m, st, sess, c) ==
  Result(500, [success |-> FALSE, error |-> e],
         m, [st EXCEPT !.errors_total = @ + 1], sess, c)

\* get_inference_session: the session after the call
get_inference_session(sess, env) ==
  IF MAX_AVAILABLE /\ sess = None THEN env.sess ELSE sess

\* load_model_max: [raised, models, session, calls, result]
load_model_max(model_path, model_id, m, sess0, c, env) ==
  LET session == get_inference_session(sess0, env)
      call == [op |-> "load", backend |-> "max", model_id |-> model_id,
               path |-> model_path, ok |-> env.maxOk,
               at |-> Len(requests) + 1]
  IN
  IF session = None
  THEN [raised |-> TRUE, exc |-> "MAX Engine session not available",
        max_models |-> m, inference_session |-> session, max_calls |-> c,
        result |-> NoBody]
  ELSE IF ~env.maxOk
  THEN [raised |-> TRUE, exc |-> "MaxLoadError",
        max_models |-> m, inference_session |-> session,
        max_calls |-> Append(c, call), result |-> NoBody]
  ELSE [raised |-> FALSE, exc |-> "",
        max_models |-> DictSet(m, model_id,
                         [model |-> Len(c) + 1, backend |-> "max", path |-> model_path]),
        inference_session |-> session,
        max_calls |-> Append(c, call),
        result |-> [model_id |-> model_id, backend |-> "max",
                    input_names |-> <<"input">>, output_names |-> <<"output">>]]

\* load_model_onnx
load_model_onnx(model_path, model_id, m, sess0, c, env) ==
  LET call == [op |-> "load", backend |-> "onnx", model_id |-> model_id,
               path |-> model_path, ok |-> env.onnx = "ok",
               at |-> Len(requests) + 1]
      stored == DictSet(m, model_id,
                  [model |-> Len(c) + 1, backend |-> "onnx", path |-> model_path])
  IN
  IF ~ONNX_AVAILABLE
  THEN [raised |-> TRUE, exc |-> "NameError",
        max_models |-> m, inference_session |-> sess0, max_calls |-> c,
        result |-> NoBody]
  ELSE IF env.onnx = "raise"
  THEN [raised |-> TRUE, exc |-> "OnnxLoadError",
        max_models |-> m, inference_session |-> sess0,
        max_calls |-> Append(c, call), result |-> NoBody]
  ELSE IF env.onnx = "raise_describe"
  THEN [raised |-> TRUE, exc |-> "OnnxDescribeError",
        max_models |-> stored, inference_session |-> sess0,
        max_calls |-> Append(c, call), result |-> NoBody]
  ELSE [raised |-> FALSE, exc |-> "",
        max_models |-> stored, inference_session |-> sess0,
        max_calls |-> Append(c, call),
        result |-> [model_id |-> model_id, backend |-> "onnx",
                    input_names |-> <<"input">>, output_names |-> <<"output">>,
                    input_shapes |-> <<"shape">>, providers |-> <<"CPUExecutionProvider">>]]

\* POST /load without the fallback: a failed MAX load is re-raised even with
\* backend "auto" and ONNX Runtime available.
load_model_NoFallback(req, env) ==
  LET st == [stats EXCEPT !.requests_total = @ + 1]
      model_path == req.model_path
      prefer_backend == Get(req.backend, "auto")
  IN
  IF Falsy(req.model_id) /\ model_path = NoPath
  THEN Error500("TypeError", max_models, st, inference_session, max_calls)
  ELSE
  LET model_id == IF Falsy(req.model_id) THEN basename(model_path) ELSE req.model_id
  IN
  IF model_path = NoPath
  THEN Result(400, [success |-> FALSE, error |-> "model_path required"],
              max_models, st, inference_session, max_calls)
  ELSE IF DictHas(max_models, model_id)
  THEN Result(200, [success |-> TRUE,
                    message |-> "Model " \o Str(model_id) \o " already loaded",
                    model_id |-> model_id,
                    backend |-> DictGet(max_models, model_id).backend],
              max_models, st, inference_session, max_calls)
  ELSE IF model_path \notin ExistingFiles
  THEN Result(404, [success |-> FALSE,
                    error |-> "Model file not found: " \o PathStr(model_path)],
              max_models, st, inference_session, max_calls)
  ELSE
  LET viaMax == load_model_max(model_path, model_id, max_models,
                               inference_session, max_calls, env)
      fallback == load_model_onnx(model_path, model_id, viaMax.max_models,
                                  viaMax.inference_session, viaMax.max_calls, env)
      direct == load_model_onnx(model_path, model_id, max_models,
                                inference_session, max_calls, env)
      r == IF prefer_backend = "max" \/ (prefer_backend = "auto" /\ MAX_AVAILABLE)
           THEN IF ~viaMax.raised THEN viaMax
                ELSE viaMax
           ELSE direct
  IN
  IF r.raised
  THEN Error500(r.exc, r.max_models, st, r.inference_session, r.max_calls)
  ELSE Result(200, [success |-> TRUE,
                    message |-> "Model " \o Str(model_id) \o " loaded successfully",
                    load_time_ms |-> "ms"] @@ r.result,
              r.max_models, st, r.inference_session, r.max_calls)

\* POST /load without the os.path.exists check: a missing file reaches the
\* backends.
load_model_NoExistsCheck(req, env) ==
  LET st == [stats EXCEPT !.requests_total = @ + 1]
      model_path == req.model_path
      prefer_backend == Get(req.backend, "auto")
  IN
  IF Falsy(req.model_id) /\ model_path = NoPath
  THEN Error500("TypeError", max_models, st, inference_session, max_calls)
  ELSE
  LET model_id == IF Falsy(req.model_id) THEN basename(model_path) ELSE req.model_id
  IN
  IF model_path = NoPath
  THEN Result(400, [success |-> FALSE, error |-> "model_path required"],
              max_models, st, inference_session, max_calls)
  ELSE IF DictHas(max_models, model_id)
  THEN Result(200, [success |-> TRUE,
                    message |-> "Model " \o Str(model_id) \o " already loaded",
                    model_id |-> model_id,
                    backend |-> DictGet(max_models, model_id).backend],
              max_models, st, inference_session, max_calls)
  ELSE
  LET viaMax == load_model_max(model_path, model_id, max_models,
                               inference_session, max_calls, env)
      fallback == load_model_onnx(model_path, model_id, viaMax.max_models,
                                  viaMax.inference_session, viaMax.max_calls, env)
      direct == load_model_onnx(model_path, model_id, max_models,
                                inference_session, max_calls, env)
      r == IF prefer_backend = "max" \/ (prefer_backend = "auto" /\ MAX_AVAILABLE)
           THEN IF ~viaMax.raised THEN viaMax
                ELSE IF ONNX_AVAILABLE /\ prefer_backend = "auto" THEN fallback
                ELSE viaMax
           ELSE direct
  IN
  IF r.raised
  THEN Error500(r.exc, r.max_models, st, r.inference_session, r.max_calls)
  ELSE Result(200, [success |-> TRUE,
                    message |-> "Model " \o Str(model_id) \o " loaded successfully",
                    load_time_ms |-> "ms"] @@ r.result,
              r.max_models, st, r.inference_session, r.max_calls)

\* POST /load
load_model(req, env) ==
  LET st == [stats EXCEPT !.requests_total = @ + 1]
      model_path == req.model_path
      prefer_backend == Get(req.backend, "auto")
  IN
  IF Falsy(req.model_id) /\ model_path = NoPath
  THEN Error500("TypeError", max_models, st, inference_session, max_calls)
  ELSE
  LET model_id == IF Falsy(req.model_id) THEN basename(model_path) ELSE req.model_id
  IN
  IF model_path = NoPath
  THEN Result(400, [success |-> FALSE, error |-> "model_path required"],
              max_models, st, inference_session, max_calls)
  ELSE IF DictHas(max_models, model_id)
  THEN Result(200, [success |-> TRUE,
                    message |-> "Model " \o Str(model_id) \o " already loaded",
                    model_id |-> model_id,
                    backend |-> DictGet(max_models, model_id).backend],
              max_models, st, inference_session, max_calls)
  ELSE IF model_path \notin ExistingFiles
  THEN Result(404, [success |-> FALSE,
                    error |-> "Model file not found: " \o PathStr(model_path)],
              max_models, st, inference_session, max_calls)
  ELSE
  LET viaMax == load_model_max(model_path, model_id, max_models,
                               inference_session, max_calls, env)
      fallback == load_model_onnx(model_path, model_id, viaMax.max_models,
                                  viaMax.inference_session, viaMax.max_calls, env)
      direct == load_model_onnx(model_path, model_id, max_models,
                                inference_session, max_calls, env)
      r == IF prefer_backend = "max" \/ (prefer_backend = "auto" /\ MAX_AVAILABLE)
           THEN IF ~viaMax.raised THEN viaMax
                ELSE IF ONNX_AVAILABLE /\ prefer_backend = "auto" THEN fallback
                ELSE viaMax
           ELSE direct
  IN
  IF r.raised
  THEN Error500(r.exc, r.max_models, st, r.inference_session, r.max_calls)
  ELSE Result(200, [success |-> TRUE,
                    message |-> "Model " \o Str(model_id) \o " loaded successfully",
                    load_time_ms |-> "ms"] @@ r.result,
              r.max_models, st, r.inference_session, r.max_calls)

\* predict_max / predict_onnx: both look the model up again and raise
\* ValueError when it is gone, then call the backend.
predict_backend(backend, model_id, m, c, env) ==
  IF ~DictHas(m, model_id)
  THEN [raised |-> TRUE, exc |-> "Model " \o Str(model_id) \o " not loaded", max_calls |-> c]
  ELSE [raised |-> ~env.inferOk, exc |-> IF env.inferOk THEN "" ELSE "InferenceError",
        max_calls |-> Append(c, [op |-> "predict", backend |-> backend,
                                 model_id |-> model_id,
                                 path |-> DictGet(m, model_id).path,
                                 ok |-> env.inferOk,
                                 at |-> Len(requests) + 1])]

\* POST /predict
predict(req, env) ==
  LET st == [stats EXCEPT !.requests_total = @ + 1, !.inference_total = @ + 1]
      model_id == req.model_id
      input_data == req.data
  IN
  IF Falsy(model_id)
  THEN Result(400, [success |-> FALSE, error |-> "model_id required"],
              max_models, st, inference_session, max_calls)
  ELSE IF input_data = None
  THEN Result(400, [success |-> FALSE, error |-> "input_data required"],
              max_models, st, inference_session, max_calls)
  ELSE IF ~DictHas(max_models, model_id)
  THEN Result(404, [success |-> FALSE,
                    error |-> "Model " \o Str(model_id) \o " not loaded"],
              max_models, st, inference_session, max_calls)
  ELSE
  LET backend == DictGet(max_models, model_id).backend
      r == predict_backend(backend, model_id, max_models, max_calls, env)
      n == st.inference_total
  IN
  IF r.raised
  THEN Error500(r.exc, max_models, st, inference_session, r.max_calls)
  ELSE Result(200, [success |-> TRUE,
                    prediction |-> DictGet(max_models, model_id).model,
                    inference_time_ms_x100 |-> Round2(<<env.ms, 1>>),
                    backend |-> backend],
              max_models,
              [st EXCEPT !.avg_inference_time_ms = MeanUpdate(@, n, env.ms)],
              inference_session, r.max_calls)

\* POST /unload that empties the registry: unloading one model drops the
\* records of the others too.
unload_model_ClearsAll(req) ==
  LET st == [stats EXCEPT !.requests_total = @ + 1]
      model_id == req.model_id
  IN
  IF Falsy(model_id)
  THEN Result(400, [success |-> FALSE, error |-> "model_id required"],
              max_models, st, inference_session, max_calls)
  ELSE IF ~DictHas(max_models, model_id)
  THEN Result(404, [success |-> FALSE,
                    error |-> "Model " \o Str(model_id) \o " not loaded"],
              max_models, st, inference_session, max_calls)
  ELSE Result(200, [success |-> TRUE,
                    message |-> "Model " \o Str(model_id) \o " unloaded"],
              <<>>, st, inference_session, max_calls)

\* POST /unload
unload_model(req) ==
  LET st == [stats EXCEPT !.requests_total = @ + 1]
      model_id == req.model_id
  IN
  IF Falsy(model_id)
  THEN Result(400, [success |-> FALSE, error |-> "model_id required"],
              max_models, st, inference_session, max_calls)
  ELSE IF ~DictHas(max_models, model_id)
  THEN Result(404, [success |-> FALSE,
                    error |-> "Model " \o Str(model_id) \o " not loaded"],
              max_models, st, inference_session, max_calls)
  ELSE Result(200, [success |-> TRUE,
                    message |-> "Model " \o Str(model_id) \o " unloaded"],
              DictDel(max_models, model_id), st, inference_session, max_calls)

\* POST /batch_predict that counts the batch before it calls the backend: a
\* failed call leaves inference_total raised.
batch_predict_CountsBeforeCall(req, env) ==
  LET st == [stats EXCEPT !.requests_total = @ + 1]
      model_id == req.model_id
      inputs == req.data
  IN
  IF Falsy(model_id) \/ inputs = None \/ BatchLen(inputs) = 0
  THEN Result(400, [success |-> FALSE, error |-> "model_id and inputs required"],
              max_models, st, inference_session, max_calls)
  ELSE IF ~DictHas(max_models, model_id)
  THEN Result(404, [success |-> FALSE,
                    error |-> "Model " \o Str(model_id) \o " not loaded"],
              max_models, st, inference_session, max_calls)
  ELSE
  LET backend == DictGet(max_models, model_id).backend
      r == predict_backend(backend, model_id, max_models, max_calls, env)
  IN
  IF r.raised
  THEN Error500(r.exc, max_models,
                [st EXCEPT !.inference_total = @ + BatchLen(inputs)],
                inference_session, r.max_calls)
  ELSE Result(200, [success |-> TRUE,
                    predictions |-> DictGet(max_models, model_id).model,
                    batch_size |-> BatchLen(inputs),
                    inference_time_ms_x100 |-> Round2(<<env.ms, 1>>),
                    per_sample_ms_x100 |-> Round2(Rat(env.ms, BatchLen(inputs))),
                    backend |-> backend],
              max_models,
              [st EXCEPT !.inference_total = @ + BatchLen(inputs)],
              inference_session, r.max_calls)

\* POST /batch_predict that rejects only an absent inputs field: an empty
\* list reaches the backend, and the per-sample division raises
\* ZeroDivisionError.
batch_predict_AcceptsEmpty(req, env) ==
  LET st == [stats EXCEPT !.requests_total = @ + 1]
      model_id == req.model_id
      inputs == req.data
  IN
  IF Falsy(model_id) \/ inputs = None
  THEN Result(400, [success |-> FALSE, error |-> "model_id and inputs required"],
              max_models, st, inference_session, max_calls)
  ELSE IF ~DictHas(max_models, model_id)
  THEN Result(404, [success |-> FALSE,
                    error |-> "Model " \o Str(model_id) \o " not loaded"],
              max_models, st, inference_session, max_calls)
  ELSE
  LET backend == DictGet(max_models, model_id).backend
      r == predict_backend(backend, model_id, max_models, max_calls, env)
  IN
  IF r.raised
  THEN Error500(r.exc, max_models, st, inference_session, r.max_calls)
  ELSE IF BatchLen(inputs) = 0
  THEN Error500("division by zero", max_models, st, inference_session, r.max_calls)
  ELSE Result(200, [success |-> TRUE,
                    predictions |-> DictGet(max_models, model_id).model,
                    batch_size |-> BatchLen(inputs),
                    inference_time_ms_x100 |-> Round2(<<env.ms, 1>>),
                    per_sample_ms_x100 |-> Round2(Rat(env.ms, BatchLen(inputs))),
                    backend |-> backend],
              max_models,
              [st EXCEPT !.inference_total = @ + BatchLen(inputs)],
              inference_session, r.max_calls)

\* POST /batch_predict
batch_predict(req, env) ==
  LET st == [stats EXCEPT !.requests_total = @ + 1]
      model_id == req.model_id
      inputs == req.data
  IN
  IF Falsy(model_id) \/ inputs = None \/ BatchLen(inputs) = 0
  THEN Result(400, [success |-> FALSE, error |-> "model_id and inputs required"],
              max_models, st, inference_session, max_calls)
  ELSE IF ~DictHas(max_models, model_id)
  THEN Result(404, [success |-> FALSE,
                    error |-> "Model " \o Str(model_id) \o " not loaded"],
              max_models, st, inference_session, max_calls)
  ELSE
  LET backend == DictGet(max_models, model_id).backend
      r == predict_backend(backend, model_id, max_models, max_calls, env)
  IN
  IF r.raised
  THEN Error500(r.exc, max_models, st, inference_session, r.max_calls)
  ELSE Result(200, [success |-> TRUE,
                    predictions |-> DictGet(max_models, model_id).model,
                    batch_size |-> BatchLen(inputs),
                    inference_time_ms_x100 |-> Round2(<<env.ms, 1>>),
                    per_sample_ms_x100 |-> Round2(Rat(env.ms, BatchLen(inputs))),
                    backend |-> backend],
              max_models,
              [st EXCEPT !.inference_total = @ + BatchLen(inputs)],
              inference_session, r.max_calls)

\* GET /status
status ==
  LET st == [stats EXCEPT !.requests_total = @ + 1]
  IN Result(200, [status |-> "running",
                  backend |-> IF MAX_AVAILABLE THEN "max" ELSE "onnx",
                  max_available |-> MAX_AVAILABLE,
                  onnx_available |-> ONNX_AVAILABLE,
                  models |-> DictKeys(max_models),
                  model_info |-> [i \in 1..Len(max_models) |->
                     [key |-> max_models[i].key,
                      value |-> [backend |-> max_models[i].value.backend,
                                 path |-> max_models[i].value.path]]],
                  stats |-> [requests_total |-> st.requests_total,
                             inference_total |-> st.inference_total,
                             errors_total |-> st.errors_total,
                             avg_inference_time_ms_x100 |->
                               Round2(st.avg_inference_time_ms)]],
            max_models, st, inference_session, max_calls)

\* GET /health
health ==
  Result(200, [status |-> "healthy",
               backend |-> IF MAX_AVAILABLE THEN "max" ELSE "onnx",
               models_loaded |-> Len(max_models)],
         max_models, stats, inference_session, max_calls)

\* The route table.
Route(req, env) ==
  CASE req.route = "/load" -> load_model(req, env)
    [] req.route = "/predict" -> predict(req, env)
    [] req.route = "/unload" -> unload_model(req)
    [] req.route = "/batch_predict" -> batch_predict(req, env)
    [] req.route = "/status" -> status
    [] req.route = "/health" -> health

\* ------------------------------------------------------- worker threads
\* The server runs one process with several threads (gunicorn threads, or
\* Flask threaded=True), and the handlers take no lock: a thread may be
\* suspended between any two accesses to _models and _stats.
MaxThreads == 2
Threads == 1..MaxThreads
\* A thread's locals: where it is, the request it handles (its index in
\* requests), the `x += by` in progress, what it has read, its response.
Idle ==
  [pc |-> "idle", req |-> 0, ctr |-> "", by |-> 0, next |-> "", tmp |-> 0,
   n |-> 0, avg |-> <<0, 1>>, ms |-> 0, backend |-> "", model_info |-> NoBody,
   resp |-> NoBody]
\* The requests the threads are given.
ThreadRequests ==
  {Req("/load", PathOnnx, "m", "auto", None),
   Req("/predict", NoPath, "m", None, "rows"),
   Req("/unload", NoPath, "m", None, None),
   Req("/batch_predict", NoPath, "m", None, "rows"),
   Req("/status", NoPath, None, None, None)}
\* The backend behaviours a thread's request can meet.
ThreadEnvs(route) ==
  IF route = "/load"
  THEN {Env(s, a, o, TRUE, 1) : s \in {None, "cpu"}, a \in BOOLEAN,
                                o \in {"ok", "raise"}}
  ELSE Envs(route)
\* The thread moves to pc, its `+=` (if any) over.
Goto(th, to) == [th EXCEPT !.pc = to, !.ctr = "", !.by = 0, !.next = "", !.tmp = 0]
\* _stats[ctr] += by starts: the read comes next, then the write, then `next`.
Increment(th, ctr, by, next) ==
  [th EXCEPT !.pc = "read", !.ctr = ctr, !.by = by, !.next = next, !.tmp = 0]
\* The thread's locals are dropped; what is left is to return the response.
Reply(th, code, body) ==
  [Goto(th, "respond") EXCEPT !.n = 0, !.avg = <<0, 1>>, !.ms = 0, !.backend = "",
                              !.model_info = NoBody,
                              !.resp = [status |-> code, body |-> body]]
\* except Exception as e: _stats["errors_total"] += 1; return ..., 500
Fail(th, e) ==
  Increment(Reply(th, 500, [success |-> FALSE, error |-> e]),
            "errors_total", 1, "respond")
\* load_model from the first backend call on: MAX, ONNX, or MAX and then ONNX.
load_chain(model_path, model_id, prefer_backend, env) ==
  LET viaMax == load_model_max(model_path, model_id, max_models,
                               inference_session, max_calls, env)
      fallback == load_model_onnx(model_path, model_id, viaMax.max_models,
                                  viaMax.inference_session, viaMax.max_calls, env)
      direct == load_model_onnx(model_path, model_id, max_models,
                                inference_session, max_calls, env)
  IN IF prefer_backend = "max" \/ (prefer_backend = "auto" /\ MAX_AVAILABLE)
     THEN IF ~viaMax.raised THEN viaMax
          ELSE IF ONNX_AVAILABLE /\ prefer_backend = "auto" THEN fallback
          ELSE viaMax
     ELSE direct
\* The calls a step added to max_calls are those of request idx.
StampCalls(c, idx) ==
  [i \in 1..Len(c) |-> IF i > Len(max_calls) THEN [c[i] EXCEPT !.at = idx] ELSE c[i]]
\* The body of GET /status, from the module state as it is now.
status_body ==
  [status |-> "running",
   backend |-> IF MAX_AVAILABLE THEN "max" ELSE "onnx",
   max_available |-> MAX_AVAILABLE,
   onnx_available |-> ONNX_AVAILABLE,
   models |-> DictKeys(max_models),
   model_info |-> [i \in 1..Len(max_models) |->
      [key |-> max_models[i].key,
       value |-> [backend |-> max_models[i].value.backend,
                  path |-> max_models[i].value.path]]],
   stats |-> [requests_total |-> stats.requests_total,
              inference_total |-> stats.inference_total,
              errors_total |-> stats.errors_total,
              avg_inference_time_ms_x100 |-> Round2(stats.avg_inference_time_ms)]]

\* ===================================================== coral_inference.py
\* ------------------------------------------------------------- numbers
\* A float is held exactly, as a fraction <<n, d>> with d > 0; an int8
\* element q is the fraction <<q, 1>>.
INT8_MIN == -128
INT8_MAX == 127
INT8_SPAN == 256
Whole(q) == <<q, 1>>
\* x / s for a positive s, and x + z for an integer z
FDiv(x, s) == <<x[1] * s[2], x[2] * s[1]>>
FAddInt(x, z) == <<x[1] + z * x[2], x[2]>>
FMul(x, s) == <<x[1] * s[1], x[2] * s[2]>>
FLeq(x, y) == x[1] * y[2] <= y[1] * x[2]
\* |x - y|
FDist(x, y) ==
  LET a == x[1] * y[2]
      b == y[1] * x[2]
  IN <<IF a < b THEN b - a ELSE a - b, x[2] * y[2]>>
\* The integer part of x, toward zero (C's conversion of a float to an integer).
Trunc(x) ==
  IF x[1] >= 0 THEN x[1] \div x[2] ELSE 0 - ((0 - x[1]) \div x[2])
\* np.round: to the nearest integer, a tie to the even one.
np_round(x) ==
  LET q == x[1] \div x[2]
      r == x[1] % x[2]
  IN IF 2 * r < x[2] THEN q
     ELSE IF 2 * r > x[2] THEN q + 1
     ELSE IF q % 2 = 0 THEN q ELSE q + 1
\* The low eight bits of v, read as a signed byte.
Wrap8(v) == ((v - INT8_MIN) % INT8_SPAN) + INT8_MIN
Clamp8(v) == IF v < INT8_MIN THEN INT8_MIN ELSE IF v > INT8_MAX THEN INT8_MAX ELSE v
\* A float converted to int8 (np.array(.., dtype=np.int8), .astype(np.int8)):
\* the fraction is dropped; a value outside the int8 range converts to a
\* result C leaves undefined: builds give the wrapped byte or the nearest
\* limit.
CastInt8(x) ==
  LET t == Trunc(x)
  IN IF INT8_MIN <= t /\ t <= INT8_MAX THEN {t} ELSE {Wrap8(t), Clamp8(t)}

\* ------------------------------------------------------------- tensors
NoTensor == [none |-> TRUE]
\* An array: element type, shape, and the value of its elements (all equal).
Tensor(dtype, shape, x) == [dtype |-> dtype, shape |-> shape, x |-> x]
Raised(type) == [raised |-> type]
IsRaised(r) == "raised" \in DOMAIN r
\* The number of elements of a shape.
RECURSIVE Count(_)
Count(shape) == IF shape = <<>> THEN 1 ELSE shape[1] * Count(Tail(shape))

\* np.array(input_data, dtype=input_details['dtype'])
np_array(data, dtype) ==
  IF dtype = "int8"
  THEN {Tensor("int8", data.shape, Whole(v)) : v \in CastInt8(data.x)}
  ELSE {Tensor("float32", data.shape, data.x)}

\* A reshape that takes any shape, whatever the number of elements.
reshape_AnyCount(arr, shape) == Tensor(arr.dtype, shape, arr.x)
\* input_array.reshape(expected_shape): ValueError unless the element
\* counts agree.
reshape(arr, shape) ==
  IF Count(arr.shape) = Count(shape)
  THEN Tensor(arr.dtype, shape, arr.x)
  ELSE Raised("ValueError")

\* if input_array.shape != tuple(expected_shape): reshape
reshape_if_needed(arr, expected_shape) ==
  IF arr.shape # expected_shape THEN reshape(arr, expected_shape) ELSE arr

\* The quantization block: only for an int8 model fed a float32 array.
quantize(arr, input_details) ==
  IF input_details.dtype = "int8" /\ arr.dtype = "float32"
  THEN LET scale == input_details.quantization[1]
           zero_point == input_details.quantization[2]
           r == np_round(FAddInt(FDiv(arr.x, scale), zero_point))
       IN {Tensor("int8", arr.shape, Whole(v)) : v \in CastInt8(Whole(r))}
  ELSE {arr}

\* (output_data.astype(np.float32) - zero_point) * scale
dequantize_value(q, scale, zero_point) == FMul(FAddInt(q, 0 - zero_point), scale)
dequantize(out, output_details) ==
  IF output_details.dtype = "int8"
  THEN Tensor("float32", out.shape,
              dequantize_value(out.x, output_details.quantization[1],
                               output_details.quantization[2]))
  ELSE out

\* -------------------------------------------------------------- inputs
\* The shapes of a rank: every dimension from 1 to MaxDim.
ShapesOfRank(r) == [1..r -> 1..MaxDim]
\* Shapes the Coral helper is given: a scalar, a vector or a matrix.
CoralShapes == ShapesOfRank(0) \cup ShapesOfRank(1) \cup ShapesOfRank(2)
\* Element values of the input: fractions, halves, and values whose
\* quotient by the scale leaves the int8 range.
CoralValues == {<<-301, 2>>, <<-3, 2>>, <<1, 4>>, <<3, 2>>, <<7, 2>>, <<300, 1>>}
\* (scale, zero_point) pairs of a quantized tensor.
Quantizations == {<<<<1, 2>>, 0>>, <<<<1, 1>>, 0>>, <<<<1, 2>>, 3>>}
\* What the run finds around it.
CoralEnvs == {"ok", "no_pycoral", "no_args", "bad_json", "no_device", "no_model"}

CoralIdle == [pc |-> "idle"]
\* The script, started with its arguments, before its imports.
CoralStart(env, data, input_details, output_details) ==
  [pc |-> "import", env |-> env, input_data |-> data,
   input_details |-> input_details, output_details |-> output_details,
   input_array |-> NoTensor, fed |-> NoTensor, invoked |-> FALSE,
   output_data |-> NoTensor, stdout |-> NoResult, exited |-> FALSE,
   exit_status |-> 0]
CoralStarts ==
  {CoralStart(env, [shape |-> s, x |-> x],
              [dtype |-> din, shape |-> es, quantization |-> qz],
              [dtype |-> dout, quantization |-> qz]) :
     env \in {"ok"}, s \in CoralShapes, x \in CoralValues, din \in {"int8", "float32"},
     es \in ShapesOfRank(1) \cup ShapesOfRank(2), qz \in Quantizations,
     dout \in {"int8", "float32"}}
  \cup
  {CoralStart(env, [shape |-> <<1, MaxDim>>, x |-> <<3, 2>>],
              [dtype |-> "int8", shape |-> <<1, MaxDim>>, quantization |-> <<<<1, 2>>, 0>>],
              [dtype |-> "int8", quantization |-> <<<<1, 2>>, 0>>]) :
     env \in CoralEnvs \ {"ok"}}

\* ================================ predict: the input on its way to a backend
\* handle_predict (python_bridge.py), predict_max and predict_onnx
\* (max_bridge.py) turn the request's input into an array and make sure of
\* a batch dimension before they call the backend.
PredictFns == {"handle_predict", "predict_max", "predict_onnx"}
FeedShapes == UNION {ShapesOfRank(r) : r \in 0..MaxRank}
FeedIdle == [pc |-> "idle"]
\* A predict function given an input of some shape, for a model that
\* declares an input of some rank (up to one more than the input's).
FeedStarts ==
  {[pc |-> "convert", fn |-> fn, input_shape |-> s, declared_rank |-> r,
    input_array |-> NoTensor, called |-> FALSE, passed |-> <<>>, error |-> None] :
     fn \in PredictFns, s \in FeedShapes, r \in 1..(MaxRank + 1)}

\* The array made of the input. handle_predict converts whatever it is
\* given; predict_max and predict_onnx convert a list and keep anything
\* else as it is, so a bare number stays a Python number.
to_array(fn, shape) ==
  IF fn = "handle_predict" \/ Len(shape) > 0
  THEN [ndarray |-> TRUE, shape |-> shape]
  ELSE [ndarray |-> FALSE]

\* if len(input_array.shape) == 1: input_array = input_array.reshape(1, -1)
ensure_batch(shape) == IF Len(shape) = 1 THEN <<1, shape[1]>> ELSE shape

\* ------------------------------------------------------------------- Init
StreamInit ==
  /\ pc = "install_sigterm"
  /\ hpc = "none"
  /\ installed = {}
  /\ inLog = <<>>
  /\ cur = NoLine
  /\ output = <<>>
  /\ models = <<>>
  /\ model_types = <<>>
  /\ calls = <<>>

\* max_bridge.py after import: the availability flags are set (the module
\* exits when neither backend imports), nothing is loaded, no session yet.
HttpInit ==
  /\ \E av \in {<<TRUE, TRUE>>, <<TRUE, FALSE>>, <<FALSE, TRUE>>} :
       /\ bridge # "http" => av = <<FALSE, TRUE>>
       /\ MAX_AVAILABLE = av[1]
       /\ ONNX_AVAILABLE = av[2]
  /\ serving = FALSE
  /\ inference_session = None
  /\ max_models = <<>>
  /\ stats = [requests_total |-> 0, inference_total |-> 0, errors_total |-> 0,
              avg_inference_time_ms |-> <<0, 1>>, start_time |-> "t0"]
  /\ requests = <<>>
  /\ responses = <<>>
  /\ max_calls = <<>>
  /\ threads = [t \in Threads |-> Idle]

\* Neither the Coral helper nor a predict input is under way.
TensorsIdle == coral = CoralIdle /\ feed = FeedIdle

Init ==
  /\ bridge \in {"stream", "http"}
  /\ StreamInit
  /\ HttpInit
  /\ TensorsIdle

\* ------------------------------------------------- main() (python_bridge)
Running == bridge = "stream" /\ hpc = "none"

\* signal.signal(signal.SIGTERM, handle_sigterm)
InstallSigterm ==
  /\ Running /\ pc = "install_sigterm"
  /\ installed' = installed \cup {"SIGTERM"}
  /\ pc' = "install_sigint"
  /\ UNCHANGED <<tensorVars, bridge, hpc, inLog, cur, output, models, model_types, calls, httpVars>>

\* signal.signal(signal.SIGINT, handle_sigterm)
InstallSigint ==
  /\ Running /\ pc = "install_sigint"
  /\ installed' = installed \cup {"SIGINT"}
  /\ pc' = "send_ready"
  /\ UNCHANGED <<tensorVars, bridge, hpc, inLog, cur, output, models, model_types, calls, httpVars>>

\* send_response("ready", True, {"message": "Python bridge ready"})
SendReady ==
  /\ Running /\ pc = "send_ready"
  /\ output' = Append(output,
       send_response("ready", TRUE, [message |-> "Python bridge ready"], None))
  /\ pc' = "read"
  /\ UNCHANGED <<tensorVars, bridge, hpc, installed, inLog, cur, models, model_types, calls, httpVars>>

\* for line in sys.stdin: the next line arrives
ReadLine ==
  /\ Running /\ pc = "read"
  /\ Len(inLog) < MaxLines
  /\ \E line \in Lines(Len(inLog) + 1) :
       /\ inLog' = Append(inLog, line)
       /\ cur' = line
  /\ pc' = "handle"
  /\ UNCHANGED <<tensorVars, bridge, hpc, installed, output, models, model_types, calls, httpVars>>

\* for line in sys.stdin: end of input, main() returns
EndOfInput ==
  /\ Running /\ pc = "read"
  /\ pc' = "stopped"
  /\ UNCHANGED <<tensorVars, bridge, hpc, installed, inLog, cur, output, models, model_types, calls, httpVars>>

\* The loop body with the inner except swallowing the exception: the line
\* that raised gets no response.
LoopBody_SwallowsException(line, how) ==
  IF line.kind = "blank"
  THEN [next |-> "read", res |-> Outcome(<<>>, models, model_types, calls, "")]
  ELSE IF line.kind = "badjson"
  THEN [next |-> "read",
        res |-> Outcome(<<send_response("error", FALSE, NoResult, "Invalid JSON: ...")>>,
                        models, model_types, calls, "")]
  ELSE IF line.kind = "nonobject"
  THEN [next |-> "crashed",
        res |-> Outcome(<<>>, models, model_types, calls, "AttributeError")]
  ELSE
  LET msg_id == Get(line.id, "unknown")
      command == Get(line.command, "")
      r == Dispatch(msg_id, command, line, how)
  IN
  IF r.exc # ""
  THEN [next |-> "read",
        res |-> Outcome(r.out, r.models, r.model_types, r.calls, "")]
  ELSE [next |-> IF command = "shutdown" THEN "return" ELSE "read", res |-> r]

\* The loop body without the except for JSONDecodeError: a line that is not
\* JSON ends the process.
LoopBody_JsonErrorUncaught(line, how) ==
  IF line.kind = "blank"
  THEN [next |-> "read", res |-> Outcome(<<>>, models, model_types, calls, "")]
  ELSE IF line.kind \in {"badjson", "nonobject"}
  THEN [next |-> "crashed",
        res |-> Outcome(<<>>, models, model_types, calls, "Exception")]
  ELSE
  LET msg_id == Get(line.id, "unknown")
      command == Get(line.command, "")
      r == Dispatch(msg_id, command, line, how)
  IN
  IF r.exc # ""
  THEN [next |-> "read",
        res |-> Outcome(r.out \o <<send_response(msg_id, FALSE, NoResult,
                                     "Error: " \o r.exc \o "\n" \o "Traceback")>>,
                        r.models, r.model_types, r.calls, "")]
  ELSE [next |-> IF command = "shutdown" THEN "return" ELSE "read", res |-> r]

\* The loop body without the break of the shutdown command: the response is
\* written and the loop goes on reading.
LoopBody_ShutdownKeepsReading(line, how) ==
  IF line.kind = "blank"
  THEN [next |-> "read", res |-> Outcome(<<>>, models, model_types, calls, "")]
  ELSE IF line.kind = "badjson"
  THEN [next |-> "read",
        res |-> Outcome(<<send_response("error", FALSE, NoResult, "Invalid JSON: ...")>>,
                        models, model_types, calls, "")]
  ELSE IF line.kind = "nonobject"
  THEN [next |-> "crashed",
        res |-> Outcome(<<>>, models, model_types, calls, "AttributeError")]
  ELSE
  LET msg_id == Get(line.id, "unknown")
      command == Get(line.command, "")
      r == Dispatch(msg_id, command, line, how)
  IN
  IF r.exc # ""
  THEN [next |-> "read",
        res |-> Outcome(r.out \o <<send_response(msg_id, FALSE, NoResult,
                                     "Error: " \o r.exc \o "\n" \o "Traceback")>>,
                        r.models, r.model_types, r.calls, "")]
  ELSE [next |-> "read", res |-> r]

\* One iteration of the loop body on the line just read.
LoopBody(line, how) ==
  IF line.kind = "blank"
  THEN [next |-> "read", res |-> Outcome(<<>>, models, model_types, calls, "")]
  ELSE IF line.kind = "badjson"
  THEN [next |-> "read",
        res |-> Outcome(<<send_response("error", FALSE, NoResult, "Invalid JSON: ...")>>,
                        models, model_types, calls, "")]
  ELSE IF line.kind = "nonobject"
  THEN [next |-> "crashed",
        res |-> Outcome(<<>>, models, model_types, calls, "AttributeError")]
  ELSE
  LET msg_id == Get(line.id, "unknown")
      command == Get(line.command, "")
      r == Dispatch(msg_id, command, line, how)
  IN
  IF r.exc # ""
  THEN [next |-> "read",
        res |-> Outcome(r.out \o <<send_response(msg_id, FALSE, NoResult,
                                     "Error: " \o r.exc \o "\n" \o "Traceback")>>,
                        r.models, r.model_types, r.calls, "")]
  ELSE [next |-> IF command = "shutdown" THEN "return" ELSE "read", res |-> r]

HandleLine ==
  /\ Running /\ pc = "handle"
  /\ \E how \in BackendOutcomes :
       /\ cur.kind = "object" => BackendMayReturn(cur, how)
       /\ LET b == LoopBody(cur, how)
          IN /\ pc' = b.next
             /\ output' = output \o b.res.out
             /\ models' = b.res.models
             /\ model_types' = b.res.model_types
             /\ calls' = b.res.calls
  /\ cur' = NoLine
  /\ UNCHANGED <<tensorVars, bridge, hpc, installed, inLog, httpVars>>

\* After the break of the shutdown command: main() returns and the
\* interpreter exits.
Return ==
  /\ Running /\ pc = "return"
  /\ pc' = "stopped"
  /\ UNCHANGED <<tensorVars, bridge, hpc, installed, inLog, cur, output, models, model_types, calls, httpVars>>

\* ------------------------------------------------------------- signals
Alive == pc \notin {"stopped", "crashed", "exited", "killed"}

\* SIGTERM or SIGINT is delivered. With handle_sigterm installed the handler
\* starts (again, if it is already running); otherwise the default
\* disposition ends the process.
Signal ==
  /\ bridge = "stream" /\ Alive
  /\ \E sig \in {"SIGTERM", "SIGINT"} :
       IF sig \in installed
       THEN /\ hpc # "ack"
            /\ hpc = "exit" =>
                 Len(SelectSeq(output, LAMBDA r : r.id = "shutdown")) < MaxAcks
            /\ hpc' = "ack"
            /\ pc' = pc
       ELSE /\ hpc' = hpc
            /\ pc' = "killed"
  /\ UNCHANGED <<tensorVars, bridge, installed, inLog, cur, output, models, model_types, calls, httpVars>>

\* handle_sigterm: send_response("shutdown", True, {...})
HandlerAck ==
  /\ bridge = "stream" /\ Alive /\ hpc = "ack"
  /\ output' = Append(output,
       send_response("shutdown", TRUE, [message |-> "Bridge shutting down"], None))
  /\ hpc' = "exit"
  /\ UNCHANGED <<tensorVars, bridge, pc, installed, inLog, cur, models, model_types, calls, httpVars>>

\* handle_sigterm: sys.exit(0)
HandlerExit ==
  /\ bridge = "stream" /\ Alive /\ hpc = "exit"
  /\ pc' = "exited"
  /\ UNCHANGED <<tensorVars, bridge, hpc, installed, inLog, cur, output, models, model_types, calls, httpVars>>

StreamNext ==
  \/ InstallSigterm
  \/ InstallSigint
  \/ SendReady
  \/ ReadLine
  \/ EndOfInput
  \/ HandleLine
  \/ Return
  \/ Signal
  \/ HandlerAck
  \/ HandlerExit

\* ------------------------------------------------------ main() (max_bridge)
\* main() up to the server's run(): creates the MAX session when MAX is there.
HttpStart ==
  /\ bridge = "http" /\ ~serving
  /\ \E s \in {None, "gpu", "cpu"} :
       inference_session' =
         get_inference_session(inference_session, Env(s, TRUE, "ok", TRUE, 1))
  /\ serving' = TRUE
  /\ UNCHANGED <<tensorVars, bridge, streamVars, MAX_AVAILABLE, ONNX_AVAILABLE, max_models, stats,
                 requests, responses, max_calls, threads>>

\* One request, handled from start to end (a single worker, one at a time).
HandleRequest ==
  /\ bridge = "http" /\ serving
  /\ Len(requests) < MaxReqs
  /\ \E req \in HttpRequests :
       \E r \in {Route(req, env) : env \in Envs(req.route)} :
            /\ requests' = Append(requests, req)
            /\ responses' = Append(responses, [status |-> r.status, body |-> r.body])
            /\ max_models' = r.max_models
            /\ stats' = r.stats
            /\ inference_session' = r.inference_session
            /\ max_calls' = r.max_calls
  /\ UNCHANGED <<tensorVars, bridge, streamVars, MAX_AVAILABLE, ONNX_AVAILABLE, serving, threads>>

HttpNext ==
  \/ HttpStart
  \/ HandleRequest

\* ------------------------------------- the handlers, one access at a time
\* What no handler step changes.
serverVars == <<bridge, streamVars, MAX_AVAILABLE, ONNX_AVAILABLE, serving>>

\* A free thread takes a request and enters its handler, whose first
\* statement is _stats["requests_total"] += 1.
Accept(t) ==
  /\ bridge = "http" /\ serving /\ threads[t].pc = "idle"
  /\ Len(requests) < MaxReqs
  /\ \E req \in ThreadRequests :
       /\ requests' = Append(requests, req)
       /\ threads' = [threads EXCEPT ![t] =
            Increment([Idle EXCEPT !.req = Len(requests) + 1], "requests_total", 1,
                      IF req.route = "/predict" THEN "count_inference" ELSE "body")]
  /\ UNCHANGED <<tensorVars, serverVars, inference_session, max_models, stats, responses, max_calls>>

\* _stats[ctr] += by: the value is read ...
CounterRead(t) ==
  /\ bridge = "http" /\ threads[t].pc = "read"
  /\ threads' = [threads EXCEPT ![t] =
       [@ EXCEPT !.pc = "write", !.tmp = stats[threads[t].ctr]]]
  /\ UNCHANGED <<tensorVars, serverVars, inference_session, max_models, stats, requests,
                 responses, max_calls>>

\* ... and the sum is stored. In predict the increment of inference_total
\* follows the one of requests_total.
CounterWrite(t) ==
  LET th == threads[t]
  IN /\ bridge = "http" /\ th.pc = "write"
     /\ stats' = [stats EXCEPT ![th.ctr] = th.tmp + th.by]
     /\ threads' = [threads EXCEPT ![t] =
          IF th.next = "count_inference"
          THEN Increment(th, "inference_total", 1, "body")
          ELSE Goto(th, th.next)]
     /\ UNCHANGED <<tensorVars, serverVars, inference_session, max_models, requests, responses,
                    max_calls>>

\* load_model up to the backend: the fields, `model_id in _models`,
\* os.path.exists.
LoadCheck(t) ==
  LET th == threads[t]
      req == requests[th.req]
      model_path == req.model_path
      model_id == IF Falsy(req.model_id) THEN basename(model_path) ELSE req.model_id
  IN /\ bridge = "http" /\ th.pc = "body" /\ req.route = "/load"
     /\ threads' = [threads EXCEPT ![t] =
          IF Falsy(req.model_id) /\ model_path = NoPath
          THEN Fail(th, "TypeError")
          ELSE IF model_path = NoPath
          THEN Reply(th, 400, [success |-> FALSE, error |-> "model_path required"])
          ELSE IF DictHas(max_models, model_id)
          THEN Goto(th, "duplicate")
          ELSE IF model_path \notin ExistingFiles
          THEN Reply(th, 404, [success |-> FALSE,
                               error |-> "Model file not found: " \o PathStr(model_path)])
          ELSE Goto(th, "load")]
     /\ UNCHANGED <<tensorVars, serverVars, inference_session, max_models, stats, requests,
                    responses, max_calls>>

\* load_model, the already-loaded response: _models[model_id]["backend"]
LoadDuplicate(t) ==
  LET th == threads[t]
      req == requests[th.req]
      model_id == IF Falsy(req.model_id) THEN basename(req.model_path) ELSE req.model_id
  IN /\ bridge = "http" /\ th.pc = "duplicate"
     /\ threads' = [threads EXCEPT ![t] =
          IF DictHas(max_models, model_id)
          THEN Reply(th, 200, [success |-> TRUE,
                               message |-> "Model " \o Str(model_id) \o " already loaded",
                               model_id |-> model_id,
                               backend |-> DictGet(max_models, model_id).backend])
          ELSE Fail(th, "KeyError")]
     /\ UNCHANGED <<tensorVars, serverVars, inference_session, max_models, stats, requests,
                    responses, max_calls>>

\* load_model, the backend calls and the store into _models.
LoadBackend(t) ==
  LET th == threads[t]
      req == requests[th.req]
      model_id == IF Falsy(req.model_id) THEN basename(req.model_path) ELSE req.model_id
  IN /\ bridge = "http" /\ th.pc = "load"
     /\ \E env \in ThreadEnvs("/load") :
          LET r == load_chain(req.model_path, model_id, Get(req.backend, "auto"), env)
          IN /\ max_models' = r.max_models
             /\ inference_session' = r.inference_session
             /\ max_calls' = StampCalls(r.max_calls, th.req)
             /\ threads' = [threads EXCEPT ![t] =
                  IF r.raised THEN Fail(th, r.exc)
                  ELSE Reply(th, 200,
                         [success |-> TRUE,
                          message |-> "Model " \o Str(model_id) \o " loaded successfully",
                          load_time_ms |-> "ms"] @@ r.result)]
     /\ UNCHANGED <<tensorVars, serverVars, stats, requests, responses>>

\* predict up to the inference: the fields and `model_id in _models`.
PredictCheck(t) ==
  LET th == threads[t]
      req == requests[th.req]
      model_id == req.model_id
  IN /\ bridge = "http" /\ th.pc = "body" /\ req.route = "/predict"
     /\ threads' = [threads EXCEPT ![t] =
          IF Falsy(model_id)
          THEN Reply(th, 400, [success |-> FALSE, error |-> "model_id required"])
          ELSE IF req.data = None
          THEN Reply(th, 400, [success |-> FALSE, error |-> "input_data required"])
          ELSE IF ~DictHas(max_models, model_id)
          THEN Reply(th, 404, [success |-> FALSE,
                               error |-> "Model " \o Str(model_id) \o " not loaded"])
          ELSE Goto(th, "lookup")]
     /\ UNCHANGED <<tensorVars, serverVars, inference_session, max_models, stats, requests,
                    responses, max_calls>>

\* batch_predict up to the inference.
BatchCheck(t) ==
  LET th == threads[t]
      req == requests[th.req]
      model_id == req.model_id
  IN /\ bridge = "http" /\ th.pc = "body" /\ req.route = "/batch_predict"
     /\ threads' = [threads EXCEPT ![t] =
          IF Falsy(model_id) \/ req.data = None \/ BatchLen(req.data) = 0
          THEN Reply(th, 400, [success |-> FALSE,
                               error |-> "model_id and inputs required"])
          ELSE IF ~DictHas(max_models, model_id)
          THEN Reply(th, 404, [success |-> FALSE,
                               error |-> "Model " \o Str(model_id) \o " not loaded"])
          ELSE Goto(th, "lookup")]
     /\ UNCHANGED <<tensorVars, serverVars, inference_session, max_models, stats, requests,
                    responses, max_calls>>

\* backend = _models[model_id]["backend"]: KeyError when the model is gone
Lookup(t) ==
  LET th == threads[t]
      model_id == requests[th.req].model_id
  IN /\ bridge = "http" /\ th.pc = "lookup"
     /\ threads' = [threads EXCEPT ![t] =
          IF DictHas(max_models, model_id)
          THEN [Goto(th, "get_model") EXCEPT
                  !.backend = DictGet(max_models, model_id).backend]
          ELSE Fail(th, "KeyError")]
     /\ UNCHANGED <<tensorVars, serverVars, inference_session, max_models, stats, requests,
                    responses, max_calls>>

\* predict_max / predict_onnx: model_info = _models.get(model_id), ValueError
\* when there is none
GetModel(t) ==
  LET th == threads[t]
      model_id == requests[th.req].model_id
  IN /\ bridge = "http" /\ th.pc = "get_model"
     /\ threads' = [threads EXCEPT ![t] =
          IF DictHas(max_models, model_id)
          THEN [Goto(th, "infer") EXCEPT !.model_info = DictGet(max_models, model_id)]
          ELSE Fail(th, "Model " \o Str(model_id) \o " not loaded")]
     /\ UNCHANGED <<tensorVars, serverVars, inference_session, max_models, stats, requests,
                    responses, max_calls>>

\* The backend runs the inference on the handle the thread holds. After it
\* predict updates the mean and batch_predict adds len(inputs) to
\* inference_total.
Infer(t) ==
  LET th == threads[t]
      req == requests[th.req]
  IN /\ bridge = "http" /\ th.pc = "infer"
     /\ \E env \in ThreadEnvs(req.route) :
          /\ max_calls' = Append(max_calls,
               [op |-> "predict", backend |-> th.backend, model_id |-> req.model_id,
                path |-> th.model_info.path, ok |-> env.inferOk, at |-> th.req])
          /\ threads' = [threads EXCEPT ![t] =
               IF ~env.inferOk THEN Fail(th, "InferenceError")
               ELSE IF req.route = "/predict"
               THEN [Goto(th, "mean_count") EXCEPT !.ms = env.ms]
               ELSE Increment(
                      Reply(th, 200,
                        [success |-> TRUE,
                         predictions |-> th.model_info.model,
                         batch_size |-> BatchLen(req.data),
                         inference_time_ms_x100 |-> Round2(<<env.ms, 1>>),
                         per_sample_ms_x100 |-> Round2(Rat(env.ms, BatchLen(req.data))),
                         backend |-> th.backend]),
                      "inference_total", BatchLen(req.data), "respond")]
     /\ UNCHANGED <<tensorVars, serverVars, inference_session, max_models, stats, requests,
                    responses>>

\* n = _stats["inference_total"]
MeanReadCount(t) ==
  /\ bridge = "http" /\ threads[t].pc = "mean_count"
  /\ threads' = [threads EXCEPT ![t] =
       [@ EXCEPT !.pc = "mean_read", !.n = stats.inference_total]]
  /\ UNCHANGED <<tensorVars, serverVars, inference_session, max_models, stats, requests,
                 responses, max_calls>>

\* the right-hand side reads _stats["avg_inference_time_ms"] ...
MeanRead(t) ==
  /\ bridge = "http" /\ threads[t].pc = "mean_read"
  /\ threads' = [threads EXCEPT ![t] =
       [@ EXCEPT !.pc = "mean_write", !.avg = stats.avg_inference_time_ms]]
  /\ UNCHANGED <<tensorVars, serverVars, inference_session, max_models, stats, requests,
                 responses, max_calls>>

\* ... and (avg * (n - 1) + inference_time) / n is stored.
MeanWrite(t) ==
  LET th == threads[t]
  IN /\ bridge = "http" /\ th.pc = "mean_write"
     /\ stats' = [stats EXCEPT !.avg_inference_time_ms = MeanUpdate(th.avg, th.n, th.ms)]
     /\ threads' = [threads EXCEPT ![t] =
          Reply(th, 200, [success |-> TRUE,
                          prediction |-> th.model_info.model,
                          inference_time_ms_x100 |-> Round2(<<th.ms, 1>>),
                          backend |-> th.backend])]
     /\ UNCHANGED <<tensorVars, serverVars, inference_session, max_models, requests, responses,
                    max_calls>>

\* unload_model up to the del: the field and `model_id not in _models`.
UnloadCheck(t) ==
  LET th == threads[t]
      req == requests[th.req]
      model_id == req.model_id
  IN /\ bridge = "http" /\ th.pc = "body" /\ req.route = "/unload"
     /\ threads' = [threads EXCEPT ![t] =
          IF Falsy(model_id)
          THEN Reply(th, 400, [success |-> FALSE, error |-> "model_id required"])
          ELSE IF ~DictHas(max_models, model_id)
          THEN Reply(th, 404, [success |-> FALSE,
                               error |-> "Model " \o Str(model_id) \o " not loaded"])
          ELSE Goto(th, "delete")]
     /\ UNCHANGED <<tensorVars, serverVars, inference_session, max_models, stats, requests,
                    responses, max_calls>>

\* del _models[model_id]: KeyError when the model is gone
Delete(t) ==
  LET th == threads[t]
      model_id == requests[th.req].model_id
  IN /\ bridge = "http" /\ th.pc = "delete"
     /\ IF DictHas(max_models, model_id)
        THEN /\ max_models' = DictDel(max_models, model_id)
             /\ threads' = [threads EXCEPT ![t] =
                  Reply(th, 200, [success |-> TRUE,
                                  message |-> "Model " \o Str(model_id) \o " unloaded"])]
        ELSE /\ max_models' = max_models
             /\ threads' = [threads EXCEPT ![t] = Fail(th, "KeyError")]
     /\ UNCHANGED <<tensorVars, serverVars, inference_session, stats, requests, responses,
                    max_calls>>

\* status: the body is built from _models and _stats as they are.
StatusBody(t) ==
  LET th == threads[t]
  IN /\ bridge = "http" /\ th.pc = "body" /\ requests[th.req].route = "/status"
     /\ threads' = [threads EXCEPT ![t] = Reply(th, 200, status_body)]
     /\ UNCHANGED <<tensorVars, serverVars, inference_session, max_models, stats, requests,
                    responses, max_calls>>

\* The handler returns; the response is tagged with its request's index.
Respond(t) ==
  LET th == threads[t]
  IN /\ bridge = "http" /\ th.pc = "respond"
     /\ responses' = Append(responses, [status |-> th.resp.status,
                                        body |-> th.resp.body, req |-> th.req])
     /\ threads' = [threads EXCEPT ![t] = Idle]
     /\ UNCHANGED <<tensorVars, serverVars, inference_session, max_models, stats, requests,
                    max_calls>>

ThreadsNext ==
  \/ HttpStart
  \/ \E t \in Threads :
       \/ Accept(t) \/ CounterRead(t) \/ CounterWrite(t)
       \/ LoadCheck(t) \/ LoadDuplicate(t) \/ LoadBackend(t)
       \/ PredictCheck(t) \/ BatchCheck(t) \/ Lookup(t) \/ GetModel(t) \/ Infer(t)
       \/ MeanReadCount(t) \/ MeanRead(t) \/ MeanWrite(t)
       \/ UnloadCheck(t) \/ Delete(t) \/ StatusBody(t) \/ Respond(t)

\* =========================================== coral_inference.py: one run
CoralAt(p) == bridge = "coral" /\ coral.pc = p
CoralGoto(p) == coral' = [coral EXCEPT !.pc = p]
\* print(json.dumps({"error": ...})); sys.exit(1)
CoralFail(error) ==
  coral' = [coral EXCEPT !.pc = "exited", !.stdout = [error |-> error],
                         !.exited = TRUE, !.exit_status = 1]
CoralRest == UNCHANGED <<bridge, streamVars, httpVars, feed>>

\* from pycoral...: ImportError prints the hint and exits 1
CoralImport ==
  /\ CoralAt("import")
  /\ IF coral.env = "no_pycoral" THEN CoralFail("PyCoral not installed")
     ELSE CoralGoto("argv")
  /\ CoralRest

\* if len(sys.argv) < 3: usage, exit 1
CoralArgv ==
  /\ CoralAt("argv")
  /\ IF coral.env = "no_args" THEN CoralFail("Usage") ELSE CoralGoto("parse")
  /\ CoralRest

\* input_data = json.loads(input_json)
CoralParse ==
  /\ CoralAt("parse")
  /\ IF coral.env = "bad_json" THEN CoralFail("Invalid JSON input")
     ELSE CoralGoto("devices")
  /\ CoralRest

\* devices = edgetpu.list_edge_tpus(); none: error, exit 1
CoralDevices ==
  /\ CoralAt("devices")
  /\ IF coral.env = "no_device" THEN CoralFail("No Coral Edge TPU device found")
     ELSE CoralGoto("load")
  /\ CoralRest

\* make_interpreter, allocate_tensors, get_input_details, get_output_details
CoralLoad ==
  /\ CoralAt("load")
  /\ IF coral.env = "no_model" THEN CoralFail("Model file not found")
     ELSE CoralGoto("array")
  /\ CoralRest

\* input_array = np.array(input_data, dtype=input_details['dtype'])
CoralArray ==
  /\ CoralAt("array")
  /\ \E a \in np_array(coral.input_data, coral.input_details.dtype) :
       coral' = [coral EXCEPT !.pc = "reshape", !.input_array = a]
  /\ CoralRest

\* Reshape if needed; the ValueError of a failed reshape is printed, exit 1
CoralReshape ==
  /\ CoralAt("reshape")
  /\ LET r == reshape_if_needed(coral.input_array, coral.input_details.shape)
     IN IF IsRaised(r) THEN CoralFail("cannot reshape array")
        ELSE coral' = [coral EXCEPT !.pc = "quantize", !.input_array = r]
  /\ CoralRest

\* Quantize if needed (for INT8 models)
CoralQuantize ==
  /\ CoralAt("quantize")
  /\ \E a \in quantize(coral.input_array, coral.input_details) :
       coral' = [coral EXCEPT !.pc = "invoke", !.input_array = a]
  /\ CoralRest

\* set_tensor, invoke, get_tensor: the model's output has the declared
\* output type; its value is the input's (an identity model) or another.
CoralInvoke ==
  /\ CoralAt("invoke")
  /\ \E x \in {Whole(5)}
              \cup (IF coral.input_array.dtype = coral.output_details.dtype
                    THEN {coral.input_array.x} ELSE {}) :
       coral' = [coral EXCEPT
                   !.pc = "dequantize", !.fed = coral.input_array, !.invoked = TRUE,
                   !.output_data = Tensor(coral.output_details.dtype,
                                          coral.input_array.shape, x)]
  /\ CoralRest

\* Dequantize if needed
CoralDequantize ==
  /\ CoralAt("dequantize")
  /\ coral' = [coral EXCEPT
                 !.pc = "print",
                 !.output_data = dequantize(coral.output_data, coral.output_details)]
  /\ CoralRest

\* print(json.dumps({"output": ..., "shape": ..., "dtype": ..., "device": ...}))
CoralPrint ==
  /\ CoralAt("print")
  /\ coral' = [coral EXCEPT
                 !.pc = "exited", !.exited = TRUE, !.exit_status = 0,
                 !.stdout = [output |-> coral.output_data.x,
                             shape |-> coral.output_data.shape,
                             dtype |-> coral.output_data.dtype,
                             device |-> "usb:0"]]
  /\ CoralRest

CoralNext ==
  \/ CoralImport \/ CoralArgv \/ CoralParse \/ CoralDevices \/ CoralLoad
  \/ CoralArray \/ CoralReshape \/ CoralQuantize \/ CoralInvoke
  \/ CoralDequantize \/ CoralPrint

\* ================================================ predict: input shaping
FeedAt(p) == bridge = "feed" /\ feed.pc = p
FeedRest == UNCHANGED <<bridge, streamVars, httpVars, coral>>

\* input_array = np.array(input_data, dtype=np.float32)
FeedConvert ==
  /\ FeedAt("convert")
  /\ feed' = [feed EXCEPT !.pc = "batch",
                          !.input_array = to_array(feed.fn, feed.input_shape)]
  /\ FeedRest

\* Ensure batch dimension; a Python number has no shape: AttributeError
FeedBatch ==
  /\ FeedAt("batch")
  /\ IF feed.input_array.ndarray
     THEN feed' = [feed EXCEPT
                     !.pc = "call",
                     !.input_array = [ndarray |-> TRUE,
                                      shape |-> ensure_batch(feed.input_array.shape)]]
     ELSE feed' = [feed EXCEPT !.pc = "failed", !.error = "AttributeError"]
  /\ FeedRest

\* model.predict / set_tensor / model.execute / session.run
FeedCall ==
  /\ FeedAt("call")
  /\ feed' = [feed EXCEPT !.pc = "called", !.called = TRUE,
                          !.passed = feed.input_array.shape]
  /\ FeedRest

FeedNext == FeedConvert \/ FeedBatch \/ FeedCall

Next == StreamNext \/ HttpNext

\* Either bridge.
Spec == Init /\ [][Next]_vars

\* The streaming bridge alone.
InitStream == Init /\ bridge = "stream"
SpecStream == InitStream /\ [][StreamNext]_vars

\* The HTTP bridge alone.
InitHttp == Init /\ bridge = "http"
SpecHttp == InitHttp /\ [][HttpNext]_vars

\* The HTTP bridge with its worker threads: requests handled concurrently.
SpecThreads == InitHttp /\ [][ThreadsNext]_vars

\* One run of the Coral helper, over its inputs.
InitCoral ==
  /\ bridge = "coral"
  /\ StreamInit
  /\ HttpInit
  /\ coral \in CoralStarts
  /\ feed = FeedIdle
SpecCoral == InitCoral /\ [][CoralNext]_vars

\* One input prepared by a predict function, over the inputs.
InitFeed ==
  /\ bridge = "feed"
  /\ StreamInit
  /\ HttpInit
  /\ coral = CoralIdle
  /\ feed \in FeedStarts
SpecFeed == InitFeed /\ [][FeedNext]_vars

\* ============================================================ properties
\* ---------------------------------------------- reading the stdout stream
ReadyLine == send_response("ready", TRUE, [message |-> "Python bridge ready"], None)
AckLine == send_response("shutdown", TRUE, [message |-> "Bridge shutting down"], None)
\* The responses to input lines: stdout without the ready message and the
\* shutdown acknowledgments.
Answers == SelectSeq(output, LAMBDA r : r # ReadyLine /\ r # AckLine)
NonBlank(log) == SelectSeq(log, LAMBDA l : l.kind # "blank")
\* The id the response to a line has to carry.
AnswerId(line) ==
  IF line.kind = "badjson" THEN "error"
  ELSE IF line.kind = "nonobject" THEN "unknown"
  ELSE Get(line.id, "unknown")
\* The lines whose handling is over (the last one read may be in flight, or
\* may have been cut short by a termination signal).
Completed == IF cur = NoLine THEN inLog ELSE SubSeq(inLog, 1, Len(inLog) - 1)
\* The step of main() that handles the line just read.
HandlesLine == bridge = "stream" /\ hpc = "none" /\ pc = "handle" /\ pc' # "handle"
KnownCommands == {"load_model", "predict", "unload_model", "status", "ping", "shutdown"}

\* ------------------------------------------------- reading both registries
\* The model_id a load request resolves to: the one it gives or, without
\* one, the basename of its path ("" when it has neither).
LoadKey(model_path, model_id) ==
  IF ~Falsy(model_id) THEN model_id
  ELSE IF model_path = NoPath THEN ""
  ELSE basename(model_path)
ModelIds == {"m"} \cup {basename(p) : p \in Paths}
\* The step of the HTTP bridge that handles one request.
HandlesRequest == bridge = "http" /\ Len(requests') = Len(requests) + 1
HasMessage(r, text) == "message" \in DOMAIN r /\ r.message = text
\* Two response payloads carry the same metadata: the same fields with the
\* same values, the message text and the load time aside.
SameMetadata(a, b) ==
  LET aside == {"success", "message", "load_time_ms"}
  IN /\ (DOMAIN a) \ aside = (DOMAIN b) \ aside
     /\ \A f \in (DOMAIN a) \ aside : a[f] = b[f]

StreamDuplicateLoad ==
  /\ HandlesLine /\ cur.kind = "object" /\ Get(cur.command, "") = "load_model"
  /\ DictHas(models, LoadKey(cur.model_path, cur.model_id))
StreamNoOpSuccess ==
  /\ Len(output') = Len(output) + 1
  /\ output' = Append(output, output'[Len(output')])
  /\ output'[Len(output')].id = Get(cur.id, "unknown")
  /\ output'[Len(output')].success
  /\ calls' = calls /\ models' = models /\ model_types' = model_types
HttpDuplicateLoad ==
  /\ HandlesRequest /\ requests'[Len(requests')].route = "/load"
  /\ DictHas(max_models, LoadKey(requests'[Len(requests')].model_path,
                                 requests'[Len(requests')].model_id))
HttpNoOp == max_calls' = max_calls /\ max_models' = max_models
HttpNoOpSuccess ==
  /\ responses'[Len(responses')].status = 200
  /\ responses'[Len(responses')].body.success
  /\ HttpNoOp

\* C1 (as claimed): in both bridges a load whose model_id is in the registry
\* responds success, calls no backend and leaves the registry as it was.
C1_DuplicateLoadSucceeds ==
  [][/\ StreamDuplicateLoad => StreamNoOpSuccess
     /\ HttpDuplicateLoad => HttpNoOpSuccess]_vars

\* C1 (amended): the same, where on the HTTP bridge the request carries a
\* model_path; an HTTP load without model_path is answered 400, and it too
\* calls no backend and leaves the registry as it was.
C1_DuplicateLoadIsNoOp ==
  [][/\ StreamDuplicateLoad => StreamNoOpSuccess
     /\ HttpDuplicateLoad /\ requests'[Len(requests')].model_path # NoPath
          => HttpNoOpSuccess
     /\ HttpDuplicateLoad /\ requests'[Len(requests')].model_path = NoPath
          => responses'[Len(responses')].status = 400 /\ HttpNoOp]_vars
C1_Witness ==
  /\ bridge = "http" /\ Len(requests) = 2
  /\ requests[2].route = "/load" /\ requests[2].model_path = PathOnnx
  /\ responses[1].status = 200 /\ responses[2].status = 200
  /\ HasMessage(responses[2].body, "Model m already loaded")
  /\ Len(max_models) = 1 /\ Len(max_calls) = 1

\* C2 (as claimed): the success response to a load of a loaded model_id
\* carries the metadata of the response to the load that created the record.
C2_DuplicateLoadSameMetadata ==
  /\ \A m \in ModelIds : \A j \in 1..Len(output) :
       output[j].success /\ HasMessage(output[j].result, "Model " \o m \o " already loaded")
       => \E i \in 1..(j - 1) :
            /\ output[i].success
            /\ HasMessage(output[i].result, "Model " \o m \o " loaded successfully")
            /\ SameMetadata(output[i].result, output[j].result)
  /\ \A m \in ModelIds : \A j \in 1..Len(responses) :
       HasMessage(responses[j].body, "Model " \o m \o " already loaded")
       => \E i \in 1..(j - 1) :
            /\ HasMessage(responses[i].body, "Model " \o m \o " loaded successfully")
            /\ SameMetadata(responses[i].body, responses[j].body)

\* Line i is a successful unload of m, line j > i a predict for m whose
\* handling is over, and no line between them is a load of m.
StreamUnloadThenPredict(m, i, j) ==
  /\ i < j /\ j <= Len(Completed)
  /\ inLog[i].kind = "object" /\ Get(inLog[i].command, "") = "unload_model"
  /\ inLog[i].model_id = m
  /\ \E x \in 1..Len(output) : output[x].id = inLog[i].id /\ output[x].success
  /\ inLog[j].kind = "object" /\ Get(inLog[j].command, "") = "predict"
  /\ inLog[j].model_id = m
  /\ \A k \in (i + 1)..(j - 1) :
       ~(/\ inLog[k].kind = "object" /\ Get(inLog[k].command, "") = "load_model"
         /\ LoadKey(inLog[k].model_path, inLog[k].model_id) = m)
StreamNotFound(m, j) ==
  /\ \E x \in 1..Len(output) : output[x].id = inLog[j].id
  /\ \A x \in 1..Len(output) :
       output[x].id = inLog[j].id
       => ~output[x].success /\ output[x].error = "Model " \o m \o " not loaded"
  /\ \A x \in 1..Len(calls) : calls[x].at # j
HttpUnloadThenPredict(m, i, j) ==
  /\ i < j
  /\ requests[i].route = "/unload" /\ requests[i].model_id = m
  /\ responses[i].status = 200
  /\ requests[j].route = "/predict" /\ requests[j].model_id = m
  /\ \A k \in (i + 1)..(j - 1) :
       ~(/\ requests[k].route = "/load"
         /\ LoadKey(requests[k].model_path, requests[k].model_id) = m)
HttpNoBackend(j) == \A x \in 1..Len(max_calls) : max_calls[x].at # j

C4_LoopSurvivesEveryLine == bridge = "stream" => pc # "crashed"

\* C5 (as claimed): every non-blank line whose handling is over has exactly
\* one response, in order, carrying the line's id ("error" for a line that is
\* not JSON, "unknown" without an id); blank lines have none.
C5_OneAnswerPerLine ==
  bridge = "stream" =>
    LET done == NonBlank(Completed)
    IN /\ Len(Answers) = Len(done)
       /\ \A i \in 1..Len(done) : Answers[i].id = AnswerId(done[i])

\* C6: when line k+1 has been read, every earlier non-blank line already has
\* its response on stdout, in the order of the lines; at most one line is in
\* flight, and it is the last one read.
C6_ResponsesInRequestOrder ==
  bridge = "stream" /\ inLog # <<>> =>
    LET earlier == NonBlank(SubSeq(inLog, 1, Len(inLog) - 1))
    IN /\ Len(Answers) >= Len(earlier)
       /\ Len(Answers) <= Len(earlier) + 1
       /\ \A i \in 1..Len(earlier) : Answers[i].id = AnswerId(earlier[i])
       /\ pc = "read" => cur = NoLine
       /\ cur # NoLine => cur = inLog[Len(inLog)]
C6_Witness ==
  /\ bridge = "stream" /\ pc = "handle" /\ Len(inLog) = 3
  /\ Len(Answers) = 2 /\ Answers[1].id = "r1" /\ Answers[2].id = "r2"
  /\ Len(models) = 1

\* C7: handling an object whose command is none of the six known ones writes
\* exactly one response (the request's id, success=false, "Unknown command:
\* <name>"), changes neither the stores nor the lifecycle, and the loop goes
\* back to reading.
C7_UnknownCommand ==
  [][HandlesLine /\ cur.kind = "object" /\ Get(cur.command, "") \notin KnownCommands
     => /\ output' = Append(output,
             send_response(Get(cur.id, "unknown"), FALSE, NoResult,
                           "Unknown command: " \o Get(cur.command, "")))
        /\ models' = models /\ model_types' = model_types /\ calls' = calls
        /\ pc' = "read" /\ hpc' = "none" /\ installed' = installed]_vars
C7_Witness ==
  /\ bridge = "stream" /\ pc = "read" /\ Len(output) = 3
  /\ output[2] = send_response("r1", FALSE, NoResult, "Unknown command: bogus")
  /\ output[3] = send_response("r2", TRUE, [message |-> "pong"], None)

\* C8: handling a line that is not JSON writes exactly one response, with id
\* "error" and success=false, leaves the stores alone, and the loop goes back
\* to reading.
C8_InvalidJson ==
  [][HandlesLine /\ cur.kind = "badjson"
     => /\ Len(output') = Len(output) + 1
        /\ output' = Append(output, output'[Len(output')])
        /\ output'[Len(output')].id = "error"
        /\ output'[Len(output')].success = FALSE
        /\ models' = models /\ model_types' = model_types /\ calls' = calls
        /\ pc' = "read" /\ hpc' = "none"]_vars
C8_Witness ==
  /\ bridge = "stream" /\ pc = "read" /\ Len(output) = 3
  /\ inLog[1].kind = "badjson"
  /\ output[2].id = "error" /\ ~output[2].success
  /\ output[3] = send_response("r2", TRUE, [message |-> "pong"], None)

\* C9 (as claimed): the first line on stdout is the ready message, and it is
\* there before any input line is read.
C9_ReadyFirst ==
  bridge = "stream" =>
    /\ output # <<>> => output[1] = ReadyLine
    /\ inLog # <<>> => output # <<>>

\* C10 (as claimed): with the handlers installed, no shutdown acknowledgment
\* is on stdout and the process has not stopped unless the ready message was
\* written before.
C10_NeverSkipsReady ==
  (/\ bridge = "stream"
   /\ \/ \E i \in 1..Len(output) : output[i] = AckLine
      \/ pc \in {"stopped", "exited", "crashed"})
  => \E i \in 1..Len(output) : output[i] = ReadyLine


\* --------------------------------------------------- shutdown and signals
\* The shutdown acknowledgments on stdout.
Acks == SelectSeq(output, LAMBDA r : r = AckLine)

\* C11 (as claimed): a run of the streaming bridge writes at most one
\* shutdown acknowledgment, whatever the interleaving of a shutdown command
\* with SIGTERM/SIGINT deliveries.
C11_AtMostOneAck == bridge = "stream" => Len(Acks) <= 1


\* A line that is a shutdown command.
IsShutdown(line) == line.kind = "object" /\ Get(line.command, "") = "shutdown"
ShutdownResponse(line) ==
  send_response(Get(line.id, "unknown"), TRUE, [message |-> "Shutting down"], None)

\* C12 (as claimed): once a shutdown command is handled, its success
\* response, carrying the request's id, is the last line on stdout, and no
\* line after the shutdown command is read, handled or answered.
C12_ShutdownResponseIsLast ==
  bridge = "stream" =>
    \A i \in 1..Len(Completed) :
      IsShutdown(inLog[i])
      => /\ i = Len(inLog)
         /\ pc \notin {"read", "handle"}
         /\ output # <<>> /\ output[Len(output)] = ShutdownResponse(inLog[i])

\* C12 (amended): once a shutdown command is handled, its success response,
\* carrying the request's id, is the last response to an input line; no line
\* after the shutdown command is read, handled or answered; what stdout may
\* still receive after it are the acknowledgments of termination signals
\* delivered before the process has ended.
C12_ShutdownEndsLoop ==
  bridge = "stream" =>
    \A i \in 1..Len(Completed) :
      IsShutdown(inLog[i])
      => /\ i = Len(inLog)
         /\ pc \notin {"read", "handle"}
         /\ Answers # <<>> /\ Answers[Len(Answers)] = ShutdownResponse(inLog[i])
         /\ \E k \in 1..Len(output) :
              /\ output[k] = ShutdownResponse(inLog[i])
              /\ \A j \in (k + 1)..Len(output) : output[j] = AckLine
C12_Witness ==
  /\ bridge = "stream" /\ pc = "exited" /\ Len(inLog) = 2
  /\ IsShutdown(inLog[2]) /\ Len(output) = 4
  /\ output[3] = ShutdownResponse(inLog[2])
  /\ output[4] = AckLine


\* C13 (as claimed): a termination signal delivered once the bridge is READY
\* makes it write a final acknowledgment and exit; nothing is written to
\* stdout after that acknowledgment, and the process exits only after it.
C13_AckIsFinal ==
  (bridge = "stream" /\ output # <<>> /\ output[1] = ReadyLine)
  => /\ \A k \in 1..Len(output) : output[k] = AckLine => k = Len(output)
     /\ pc = "exited" => output[Len(output)] = AckLine

\* C14 (as claimed): when a termination signal arrives while a command is
\* being handled, the command is finished and its response, with its id, is
\* on stdout when the bridge has stopped.
C14_InFlightAnswered ==
  (bridge = "stream" /\ pc = "exited" /\ cur.kind = "object")
  => \E k \in 1..Len(output) :
       output[k] # AckLine /\ output[k].id = Get(cur.id, "unknown")


\* ------------------------------------------------------- POST /load steps
\* In a step that handles a request: the request, its response, and the
\* backend calls made for it.
StepReq == requests'[Len(requests')]
StepResp == responses'[Len(responses')]
NewCalls == SubSeq(max_calls', Len(max_calls) + 1, Len(max_calls'))
HandlesLoad == HandlesRequest /\ StepReq.route = "/load"
\* The registry after the step holds exactly one record for id, of this
\* backend, and the other records are as before.
OneRecord(id, backend) ==
  /\ Len(SelectSeq(max_models', LAMBDA e : e.key = id)) = 1
  /\ DictGet(max_models', id).backend = backend
  /\ DictDel(max_models', id) = DictDel(max_models, id)

\* The load request of the step gets as far as the backends: it names a file
\* that is there, and its model_id is not in the registry.
ReachesBackends ==
  /\ HandlesLoad
  /\ StepReq.model_path \in ExistingFiles
  /\ ~DictHas(max_models, LoadKey(StepReq.model_path, StepReq.model_id))
\* The MAX attempt of the step failed: no session, or session.load raised.
MaxAttemptFailed ==
  \/ inference_session' = None
  \/ NewCalls # <<>> /\ NewCalls[1].backend = "max" /\ ~NewCalls[1].ok

\* C15: on POST /load with backend "auto" and MAX available, MAX is tried
\* first and ONNX Runtime is called exactly when the MAX attempt failed (no
\* session, or session.load raised) and ONNX Runtime is there; when the ONNX
\* attempt then succeeds the response is a success with backend "onnx",
\* errors_total is as before, and the registry holds exactly one record for
\* the model_id, with backend "onnx".
C15_AutoFallsBackToOnnx ==
  [][(HandlesLoad /\ Get(StepReq.backend, "auto") = "auto" /\ MAX_AVAILABLE)
     => /\ ReachesBackends /\ inference_session' # None
           => NewCalls # <<>> /\ NewCalls[1].backend = "max"
        /\ \A k \in 1..Len(NewCalls) :
             NewCalls[k].backend = "onnx"
             => /\ MaxAttemptFailed
                /\ k = Len(NewCalls)
        /\ ReachesBackends /\ MaxAttemptFailed /\ ONNX_AVAILABLE
           => NewCalls # <<>> /\ NewCalls[Len(NewCalls)].backend = "onnx"
        /\ (NewCalls # <<>> /\ NewCalls[Len(NewCalls)].backend = "onnx"
                            /\ NewCalls[Len(NewCalls)].ok)
           => /\ StepResp.status = 200 /\ StepResp.body.success
              /\ StepResp.body.backend = "onnx"
              /\ stats'.errors_total = stats.errors_total
              /\ OneRecord(LoadKey(StepReq.model_path, StepReq.model_id), "onnx")]_vars
C15_Witness ==
  /\ bridge = "http" /\ MAX_AVAILABLE /\ Len(requests) = 1
  /\ requests[1].route = "/load" /\ requests[1].backend = "auto"
  /\ Len(max_calls) = 2
  /\ max_calls[1].backend = "max" /\ ~max_calls[1].ok
  /\ max_calls[2].backend = "onnx" /\ max_calls[2].ok
  /\ responses[1].status = 200 /\ responses[1].body.backend = "onnx"
  /\ stats.errors_total = 0
  /\ Len(max_models) = 1 /\ max_models[1].value.backend = "onnx"


\* The ONNX Runtime attempt of the step failed, or ONNX Runtime is not there.
OnnxAttemptFailed ==
  \/ ~ONNX_AVAILABLE
  \/ /\ NewCalls # <<>>
     /\ NewCalls[Len(NewCalls)].backend = "onnx" /\ ~NewCalls[Len(NewCalls)].ok
\* The load request of the step got as far as the backends and every backend
\* of its chain failed or was unavailable: MAX alone for backend "max", MAX
\* then ONNX Runtime for "auto" with MAX available, ONNX Runtime alone
\* otherwise.
ChainExhausted ==
  /\ ReachesBackends
  /\ IF StepReq.backend = "max" THEN MaxAttemptFailed
     ELSE IF StepReq.backend = "auto" /\ MAX_AVAILABLE
     THEN MaxAttemptFailed /\ OnnxAttemptFailed
     ELSE OnnxAttemptFailed

\* C16 (as claimed): POST /load answers with a 5xx failure exactly when every
\* backend of the chain that applies to the request failed or was
\* unavailable, and errors_total then grows by exactly one.
C16_ServerErrorIffChainExhausted ==
  [][HandlesLoad
     => /\ (StepResp.status >= 500 /\ ~StepResp.body.success) <=> ChainExhausted
        /\ ChainExhausted => stats'.errors_total = stats.errors_total + 1]_vars


\* A request that omits a field its route requires.
OmitsRequired(req) ==
  \/ req.route = "/load" /\ req.model_path = NoPath
  \/ req.route = "/predict" /\ (req.model_id = None \/ req.data = None)
  \/ req.route = "/batch_predict" /\ (req.model_id = None \/ req.data = None)
  \/ req.route = "/unload" /\ req.model_id = None

\* C20 (as claimed): a request to /load, /predict, /batch_predict or /unload
\* that omits a required field is answered with a 4xx status and a body with
\* success=false and an error, never a 5xx, and the registry is unchanged.
C20_MissingFieldIsClientError ==
  [][(HandlesRequest /\ OmitsRequired(StepReq))
     => /\ StepResp.status \in 400..499
        /\ ~StepResp.body.success /\ "error" \in DOMAIN StepResp.body
        /\ max_models' = max_models]_vars


\* The load request of the step names a file that is not there.
LoadsMissingFile ==
  HandlesLoad /\ StepReq.model_path # NoPath /\ StepReq.model_path \notin ExistingFiles
NotFoundResponse ==
  [status |-> 404,
   body |-> [success |-> FALSE,
             error |-> "Model file not found: " \o PathStr(StepReq.model_path)]]

\* C17 (as claimed): a POST /load whose model_path does not exist is answered,
\* in any registry state, 404 with success=false and the error "Model file
\* not found: <path>"; no backend is invoked and the registry is unchanged.
C17_MissingFileIsNotFound ==
  [][LoadsMissingFile => StepResp = NotFoundResponse /\ HttpNoOp]_vars

\* C17 (amended): the same, where the model_id of the request is not in the
\* registry; when it is, the already-loaded answer comes first (200). In
\* both cases no backend is invoked and the registry is unchanged.
C17_MissingFileNotFoundUnlessLoaded ==
  [][LoadsMissingFile
     => /\ HttpNoOp
        /\ IF DictHas(max_models, LoadKey(StepReq.model_path, StepReq.model_id))
           THEN /\ StepResp.status = 200
                /\ HasMessage(StepResp.body,
                     "Model " \o LoadKey(StepReq.model_path, StepReq.model_id)
                              \o " already loaded")
           ELSE StepResp = NotFoundResponse]_vars
C17_Witness ==
  /\ bridge = "http" /\ Len(requests) = 2
  /\ requests[1].route = "/load" /\ responses[1].status = 200
  /\ requests[2].route = "/load" /\ requests[2].model_path = PathGone
  /\ responses[2].status = 404
  /\ responses[2].body.error = "Model file not found: models/gone.tflite"
  /\ Len(max_models) = 1 /\ Len(max_calls) = 1


\* ------------------------------------------------ streaming load_model steps
\* The text t occurs in the text s.
Contains(s, t) ==
  \E i \in 1..(Len(s) - Len(t) + 1) : SubSeq(s, i, i + Len(t) - 1) = t
\* The step of main() that handles a load_model command naming a path.
HandlesStreamLoad ==
  /\ HandlesLine /\ cur.kind = "object" /\ Get(cur.command, "") = "load_model"
  /\ cur.model_path # NoPath
\* The response the step wrote.
StepAnswer == output'[Len(output')]

\* C18 (as claimed): a streaming load_model whose model_path does not exist,
\* whatever its extension, is answered success=false with an error text that
\* mentions the path, and the registry is unchanged.
C18_MissingFileErrorNamesPath ==
  [][(HandlesStreamLoad /\ cur.model_path \notin ExistingFiles)
     => /\ output' = Append(output, StepAnswer)
        /\ StepAnswer.id = Get(cur.id, "unknown")
        /\ ~StepAnswer.success
        /\ Contains(StepAnswer.error, PathStr(cur.model_path))
        /\ models' = models /\ model_types' = model_types]_vars


\* The backend family of a path by its extension, in any letter case.
FamilyOfPath(p) ==
  CASE p[3] \in {".keras", ".KERAS", ".h5", ".H5"} -> "keras"
    [] p[3] \in {".pkl", ".PKL", ".joblib", ".JOBLIB"} -> "sklearn"
    [] p[3] \in {".tflite", ".TFLITE"} -> "tflite"
    [] OTHER -> "none"

\* C19: a streaming load_model for a model_id that is not loaded calls the
\* loader of the family its extension names (.keras/.h5 keras, .pkl/.joblib
\* sklearn, .tflite tflite, in any letter case) and no other, and a success
\* records and reports that family; with any other extension the answer is
\* success=false "Unsupported model format: <ext>", no loader is called and
\* the registry is unchanged.
C19_ExtensionDeterminesFamily ==
  [][(HandlesStreamLoad
      /\ ~DictHas(models, LoadKey(cur.model_path, cur.model_id)))
     => LET family == FamilyOfPath(cur.model_path)
            key == LoadKey(cur.model_path, cur.model_id)
        IN IF family = "none"
           THEN /\ output' = Append(output,
                     send_response(Get(cur.id, "unknown"), FALSE, NoResult,
                                   "Unsupported model format: " \o cur.model_path[3]))
                /\ calls' = calls
                /\ models' = models /\ model_types' = model_types
           ELSE /\ Len(calls') = Len(calls) + 1
                /\ calls' = Append(calls, calls'[Len(calls')])
                /\ calls'[Len(calls')].op = "load"
                /\ calls'[Len(calls')].backend = family
                /\ calls'[Len(calls')].path = cur.model_path
                /\ StepAnswer.success
                   => /\ StepAnswer.result.model_type = family
                      /\ DictHas(model_types', key)
                      /\ DictGet(model_types', key) = family]_vars
C19_Witness ==
  /\ bridge = "stream" /\ pc = "read" /\ Len(inLog) = 2
  /\ inLog[1].kind = "object" /\ inLog[1].model_path = PathGoneBin
  /\ output[2].error = "Unsupported model format: .bin"
  /\ inLog[2].kind = "object" /\ inLog[2].model_path = PathH5
  /\ output[3].success /\ output[3].result.model_type = "keras"
  /\ model_types = <<[key |-> "m", value |-> "keras"]>>
  /\ Len(calls) = 1 /\ calls[1].backend = "keras"


\* ------------------------------------------------------- C21 .. C30 (stats)
\* Request i was an inference the bridge timed: a /predict or /batch_predict
\* answered 200, whose response reports the latency.
RecordedInference(i) ==
  /\ requests[i].route \in {"/predict", "/batch_predict"}
  /\ responses[i].status = 200
  /\ "inference_time_ms_x100" \in DOMAIN responses[i].body
RecordedIndices == {i \in 1..Len(responses) : RecordedInference(i)}
\* The sum of the recorded latencies of the first n requests, in hundredths.
RECURSIVE LatencySum(_)
LatencySum(n) ==
  IF n = 0 THEN 0
  ELSE LatencySum(n - 1)
       + (IF RecordedInference(n) THEN responses[n].body.inference_time_ms_x100 ELSE 0)
\* avg (a rational in ms) is the mean of the recorded latencies.
IsMeanOfRecorded(avg) ==
  IF RecordedIndices = {} THEN avg = <<0, 1>>
  ELSE avg[1] * 100 * Cardinality(RecordedIndices) = LatencySum(Len(responses)) * avg[2]

\* C21 (as claimed): after any sequence of requests handled one at a time by
\* the HTTP bridge, avg_inference_time_ms is the arithmetic mean of the N
\* recorded inference latencies, N being inference_total.
C21_AverageIsMeanOfRecorded ==
  bridge = "http"
    => /\ stats.inference_total = Cardinality(RecordedIndices)
       /\ IsMeanOfRecorded(stats.avg_inference_time_ms)


\* The step folds the latency its response reports into the running mean:
\* avg' * inference_total' = avg * inference_total + latency.
FoldsLatency ==
  /\ StepResp.status = 200
  /\ "inference_time_ms_x100" \in DOMAIN StepResp.body
  /\ LET a == stats.avg_inference_time_ms
         b == stats'.avg_inference_time_ms
     IN b[1] * stats'.inference_total * 100 * a[2]
          = (a[1] * stats.inference_total * 100
               + StepResp.body.inference_time_ms_x100 * a[2]) * b[2]

\* C22 (as claimed): every /predict or /batch_predict call that increases
\* inference_total also folds its latency into avg_inference_time_ms, and no
\* call changes one of the two without the other.
C22_CountAndMeanTogether ==
  [][HandlesRequest
     => /\ stats'.inference_total # stats.inference_total => FoldsLatency
        /\ stats'.avg_inference_time_ms # stats.avg_inference_time_ms
             => stats'.inference_total # stats.inference_total]_vars


\* ---------------------------------------------------------------- C26
\* The record of key k is in the store after the step as it was before.
RecordKept(store, storeAfter, k) ==
  DictHas(storeAfter, k) /\ DictGet(storeAfter, k) = DictGet(store, k)
\* The step is a successful unload of k.
StreamUnloads(k) ==
  /\ HandlesLine /\ cur.kind = "object" /\ Get(cur.command, "") = "unload_model"
  /\ cur.model_id = k
  /\ Len(output') = Len(output) + 1 /\ StepAnswer.success
HttpUnloads(k) ==
  /\ HandlesRequest /\ StepReq.route = "/unload" /\ StepReq.model_id = k
  /\ StepResp.status = 200

Remove(seq, k) == SelectSeq(seq, LAMBDA x : x # k)
\* The answer to line n of the input, if it has one.
AnswerTo(n) ==
  LET xs == {x \in 1..Len(output) : output[x].id = inLog[n].id}
  IN IF xs = {} THEN [success |-> FALSE, result |-> NoResult]
     ELSE output[CHOOSE x \in xs : TRUE]
\* The model ids whose most recent successful load has not been followed by a
\* successful unload, in the order of those loads, after the first n lines
\* (streaming) or requests (HTTP).
RECURSIVE StreamLoadedAfter(_)
StreamLoadedAfter(n) ==
  IF n = 0 THEN <<>>
  ELSE LET before == StreamLoadedAfter(n - 1)
           line == inLog[n]
           command == IF line.kind = "object" THEN Get(line.command, "") ELSE ""
           answer == AnswerTo(n)
       IN IF command = "load_model" /\ answer.success
             /\ "model_type" \in DOMAIN answer.result
          THEN Append(Remove(before, answer.result.model_id), answer.result.model_id)
          ELSE IF command = "unload_model" /\ answer.success
          THEN Remove(before, line.model_id)
          ELSE before
RECURSIVE HttpLoadedAfter(_)
HttpLoadedAfter(n) ==
  IF n = 0 THEN <<>>
  ELSE LET before == HttpLoadedAfter(n - 1)
           req == requests[n]
           resp == responses[n]
       IN IF req.route = "/load" /\ resp.status = 200
             /\ "load_time_ms" \in DOMAIN resp.body
          THEN Append(Remove(before, resp.body.model_id), resp.body.model_id)
          ELSE IF req.route = "/unload" /\ resp.status = 200
          THEN Remove(before, req.model_id)
          ELSE before

\* C27 (as claimed): the model list a status reports (streaming
\* loaded_models, HTTP models) is the currently loaded model ids, each once,
\* in the order of their most recent successful load.
C27_StatusListsLoadedInLoadOrder ==
  /\ \A n \in 1..Len(Completed) :
       (inLog[n].kind = "object" /\ Get(inLog[n].command, "") = "status"
          /\ AnswerTo(n).success)
       => AnswerTo(n).result.loaded_models = StreamLoadedAfter(n - 1)
  /\ \A n \in 1..Len(responses) :
       requests[n].route = "/status"
       => responses[n].body.models = HttpLoadedAfter(n - 1)


\* ---------------------------------------------------------------- C28
\* The step handles a /batch_predict whose backend call fails.
BatchBackendFails ==
  /\ HandlesRequest /\ StepReq.route = "/batch_predict"
  /\ NewCalls # <<>> /\ ~NewCalls[Len(NewCalls)].ok

\* C28: when the backend call of a /batch_predict fails, the response is a
\* 5xx failure without predictions, inference_total and
\* avg_inference_time_ms are unchanged, errors_total is one more and the
\* registry is unchanged.
C28_BatchFailsWhole ==
  [][BatchBackendFails
     => /\ StepResp.status \in 500..599
        /\ ~StepResp.body.success
        /\ "predictions" \notin DOMAIN StepResp.body
        /\ stats'.inference_total = stats.inference_total
        /\ stats'.avg_inference_time_ms = stats.avg_inference_time_ms
        /\ stats'.errors_total = stats.errors_total + 1
        /\ max_models' = max_models]_vars
C28_Witness ==
  /\ bridge = "http" /\ Len(requests) = 2
  /\ requests[2] = Req("/batch_predict", NoPath, "m", None, "rows")
  /\ responses[2].status = 500
  /\ Len(max_calls) = 2 /\ max_calls[2].op = "predict" /\ ~max_calls[2].ok
  /\ stats.inference_total = 0 /\ stats.errors_total = 1
  /\ Len(max_models) = 1


\* ---------------------------------------------------------------- C29
HandlesBatch == HandlesRequest /\ StepReq.route = "/batch_predict"
\* An empty inputs list is rejected with a 4xx before any backend call.
EmptyBatchRejected ==
  (HandlesBatch /\ StepReq.data = "empty")
  => /\ StepResp.status \in 400..499 /\ ~StepResp.body.success
     /\ NewCalls = <<>>
Dist(a, b) == IF a < b THEN b - a ELSE a - b

\* C29 (as claimed): a successful /batch_predict response has batch_size equal
\* to the number of inputs, at least 1, and per_sample_ms equal to
\* inference_time_ms divided by batch_size; an empty inputs list is rejected
\* before any backend call or division.
C29_PerSampleIsExactQuotient ==
  [][/\ (HandlesBatch /\ StepResp.status = 200)
          => /\ StepResp.body.batch_size = BatchLen(StepReq.data)
             /\ StepResp.body.batch_size >= 1
             /\ StepResp.body.per_sample_ms_x100 * StepResp.body.batch_size
                  = StepResp.body.inference_time_ms_x100
     /\ EmptyBatchRejected]_vars

\* C29 (amended): the same, where per_sample_ms and inference_time_ms are
\* each rounded to two decimals, so per_sample_ms * batch_size is within
\* 0.005 * (batch_size + 1) ms of inference_time_ms.
C29_PerSampleIsRoundedQuotient ==
  [][/\ (HandlesBatch /\ StepResp.status = 200)
          => /\ StepResp.body.batch_size = BatchLen(StepReq.data)
             /\ StepResp.body.batch_size >= 1
             /\ 2 * Dist(StepResp.body.per_sample_ms_x100 * StepResp.body.batch_size,
                         StepResp.body.inference_time_ms_x100)
                  <= StepResp.body.batch_size + 1
     /\ EmptyBatchRejected]_vars
\* An empty batch was rejected, then a batch of three took 1 ms: 0.33 ms per
\* sample.
C29_Witness ==
  /\ bridge = "http" /\ Len(requests) = 3
  /\ requests[2] = Req("/batch_predict", NoPath, "m", None, "empty")
  /\ responses[2].status = 400 /\ Len(max_calls) = 2
  /\ requests[3] = Req("/batch_predict", NoPath, "m", None, "rows")
  /\ responses[3].status = 200
  /\ responses[3].body.batch_size = 3
  /\ responses[3].body.inference_time_ms_x100 = 100
  /\ responses[3].body.per_sample_ms_x100 = 33


\* ---------------------------------------------------------------- C30
\* C30 (as claimed): backend availability (the two availability flags and
\* the shared MAX inference session) is computed once at startup; no request
\* handler changes it.
C30_AvailabilityReadOnly ==
  [][HandlesRequest
     => /\ MAX_AVAILABLE' = MAX_AVAILABLE
        /\ ONNX_AVAILABLE' = ONNX_AVAILABLE
        /\ inference_session' = inference_session]_vars


\* ------------------------------------------------- C23 .. C25 (threads)
\* No request is in flight.
Quiescent == \A t \in Threads : threads[t].pc = "idle"
CountedRoutes == {"/status", "/load", "/predict", "/unload", "/batch_predict"}
\* The response of a worker thread to request i is a success.
Succeeded(i) ==
  \E j \in 1..Len(responses) : responses[j].req = i /\ responses[j].status = 200
\* Every inference asked for so far was a single /predict that succeeded, so
\* that each one counted has a recorded latency.
OnlySuccessfulPredicts ==
  \A i \in 1..Len(requests) :
    requests[i].route \in {"/predict", "/batch_predict"}
    => requests[i].route = "/predict" /\ Succeeded(i)
\* The sum of the latencies in the first n responses of the threads, in
\* hundredths of a millisecond.
RECURSIVE ThreadLatencySum(_)
ThreadLatencySum(n) ==
  IF n = 0 THEN 0
  ELSE ThreadLatencySum(n - 1)
       + (IF "inference_time_ms_x100" \in DOMAIN responses[n].body
          THEN responses[n].body.inference_time_ms_x100 ELSE 0)

\* C23 (as claimed): with requests handled concurrently, once all of them
\* have finished requests_total is the number of counted requests, and
\* avg_inference_time_ms reflects every recorded latency: when every
\* inference was a successful /predict, it is the mean of their latencies
\* and inference_total is their number.
C23_NoLostUpdate ==
  (bridge = "http" /\ Quiescent)
  => /\ stats.requests_total
          = Cardinality({i \in 1..Len(requests) : requests[i].route \in CountedRoutes})
     /\ OnlySuccessfulPredicts
          => LET N == Cardinality({i \in 1..Len(requests) :
                                     requests[i].route = "/predict"})
             IN /\ stats.inference_total = N
                /\ stats.avg_inference_time_ms[1] * 100 * N
                     = ThreadLatencySum(Len(responses)) * stats.avg_inference_time_ms[2]


\* Request i is a POST /load that resolves to model_id m.
LoadsModel(i, m) ==
  requests[i].route = "/load" /\ LoadKey(requests[i].model_path, requests[i].model_id) = m
\* The backend loads of m that returned a handle.
BackendLoads(m) ==
  {x \in 1..Len(max_calls) :
     max_calls[x].op = "load" /\ max_calls[x].model_id = m /\ max_calls[x].ok}
\* The responses that say m was loaded by their request (not "already
\* loaded").
LoadedResponses(m) ==
  {j \in 1..Len(responses) :
     /\ LoadsModel(responses[j].req, m) /\ responses[j].status = 200
     /\ "load_time_ms" \in DOMAIN responses[j].body}
NoUnloadAsked == \A i \in 1..Len(requests) : requests[i].route # "/unload"

\* C24 (as claimed): when several POST /load requests for one model_id that
\* is not loaded are handled concurrently (and nothing unloads it), the
\* backend load is performed at most once, one request is answered "loaded"
\* and every other successful one "already loaded", and one record results.
C24_ConcurrentLoadsLoadOnce ==
  (bridge = "http" /\ NoUnloadAsked)
  => \A m \in ModelIds :
       /\ Cardinality(BackendLoads(m)) <= 1
       /\ Cardinality(LoadedResponses(m)) <= 1
       /\ Cardinality({i \in 1..Len(max_models) : max_models[i].key = m}) <= 1


\* C25 (as claimed): under sequential and under concurrent request handling,
\* requests_total, inference_total and errors_total never decrease from one
\* state to the next and start_time never changes.
C25_CountersNeverDecrease ==
  [][/\ stats'.requests_total >= stats.requests_total
     /\ stats'.inference_total >= stats.inference_total
     /\ stats'.errors_total >= stats.errors_total
     /\ stats'.start_time = stats.start_time]_vars


\* ---------------------------------------------------------------- C36
\* The step handles a load command of the streaming bridge (with or without
\* a path) and answers it with a failure.
StreamLoadFails ==
  /\ HandlesLine /\ cur.kind = "object" /\ Get(cur.command, "") = "load_model"
  /\ Len(output') > Len(output) /\ ~StepAnswer.success
HttpLoadFails == HandlesLoad /\ StepResp.status >= 400

\* C36 (as claimed): in both bridges a load request answered with a failure
\* leaves the registry exactly as it was before the request.
C36_FailedLoadLeavesRegistry ==
  [][/\ StreamLoadFails => models' = models /\ model_types' = model_types
     /\ HttpLoadFails => max_models' = max_models]_vars


\* ---------------------------------------------------------------- C38
\* The number of 5xx responses among the first n.
RECURSIVE ServerErrors(_)
ServerErrors(n) ==
  IF n = 0 THEN 0
  ELSE ServerErrors(n - 1) + (IF responses[n].status >= 500 THEN 1 ELSE 0)

\* C38: with requests handled one at a time, errors_total is the number of
\* 5xx responses returned so far.
C38_ErrorsTotalCounts5xx ==
  bridge = "http" => stats.errors_total = ServerErrors(Len(responses))
\* Each 5xx response raises errors_total by exactly one, and no 2xx or 4xx
\* response changes it.
C38_ErrorsTotalStep ==
  [][HandlesRequest
     => stats'.errors_total
          = stats.errors_total + (IF StepResp.status >= 500 THEN 1 ELSE 0)]_vars
\* A 404, a 400 and a 500 have been returned, and errors_total is 1.
C38_Witness ==
  /\ bridge = "http" /\ Len(responses) = 3
  /\ {responses[i].status : i \in 1..3} = {400, 404, 500}
  /\ stats.errors_total = 1


\* ---------------------------------------------------------------- C39
\* The answers to status commands.
StatusAnswers ==
  {x \in 1..Len(output) :
     output[x].success /\ "loaded_models" \in DOMAIN output[x].result}

\* C39: between two commands of the streaming bridge the model store and the
\* model-type store have the same keys, and every status answer has a
\* model_types entry for each id of loaded_models and for no other id.
C39_StoresHaveSameKeys ==
  bridge = "stream"
  => /\ cur = NoLine => DictKeys(models) = DictKeys(model_types)
     /\ \A x \in StatusAnswers :
          DictKeys(output[x].result.model_types) = output[x].result.loaded_models
\* A model was loaded and a status reported it with its type.
C39_Witness ==
  /\ bridge = "stream" /\ cur = NoLine
  /\ DictKeys(models) = <<"m">> /\ DictGet(model_types, "m") = "sklearn"
  /\ \E x \in StatusAnswers :
       /\ output[x].result.loaded_models = <<"m">>
       /\ DictGet(output[x].result.model_types, "m") = "sklearn"


\* ---------------------------------------------------------------- C35
\* The last component of a path.
FileName(p) == p[2] \o p[3]
KeySet(d) == {d[i].key : i \in 1..Len(d)}
\* The step handles a load that gives a path and no model_id (absent or "").
StreamLoadsUnnamed ==
  /\ HandlesLine /\ cur.kind = "object" /\ Get(cur.command, "") = "load_model"
  /\ cur.model_path # NoPath /\ Falsy(cur.model_id)
HttpLoadsUnnamed ==
  HandlesLoad /\ StepReq.model_path # NoPath /\ Falsy(StepReq.model_id)

\* C35: a load without model_id is keyed by the basename of its path. When
\* that key is in the registry (for instance from another file of the same
\* name) the load is a duplicate: it is answered "already loaded", calls no
\* backend and leaves the record of the first file. Otherwise the only key
\* the load can add is the basename, with the path of the request.
C35_UnnamedLoadKeyedByBasename ==
  [][/\ StreamLoadsUnnamed
          => LET k == FileName(cur.model_path)
             IN IF DictHas(models, k)
                THEN /\ StreamNoOpSuccess
                     /\ HasMessage(StepAnswer.result, "Model " \o k \o " already loaded")
                ELSE /\ KeySet(models') \subseteq KeySet(models) \cup {k}
                     /\ (Len(output') > Len(output) /\ StepAnswer.success)
                          => /\ DictHas(models', k)
                             /\ DictGet(models', k).path = cur.model_path
                             /\ StepAnswer.result.model_id = k
     /\ HttpLoadsUnnamed
          => LET k == FileName(StepReq.model_path)
             IN IF DictHas(max_models, k)
                THEN /\ HttpNoOpSuccess
                     /\ HasMessage(StepResp.body, "Model " \o k \o " already loaded")
                ELSE /\ KeySet(max_models') \subseteq KeySet(max_models) \cup {k}
                     /\ StepResp.status = 200
                          => /\ DictHas(max_models', k)
                             /\ DictGet(max_models', k).path = StepReq.model_path
                             /\ StepResp.body.model_id = k]_vars
\* models/a/m.pkl was loaded without model_id, then models/b/m.pkl: one
\* loader call, and the record is the first file's.
C35_Witness ==
  /\ bridge = "stream" /\ cur = NoLine /\ Len(inLog) = 2
  /\ inLog[1] = Msg("r1", "load_model", PathPkl, None)
  /\ inLog[2] = Msg("r2", "load_model", PathPklB, "")
  /\ Len(output) = 3 /\ output[3].success
  /\ HasMessage(output[3].result, "Model m.pkl already loaded")
  /\ Len(calls) = 1
  /\ DictKeys(models) = <<"m.pkl">> /\ DictGet(models, "m.pkl").path = PathPkl


\* ------------------------------------------------- the Coral helper's run
\* The run has fed its input to the interpreter of an int8 model.
FedInt8Model ==
  bridge = "coral" /\ coral.invoked /\ coral.input_details.dtype = "int8"
InScale == coral.input_details.quantization[1]
InZeroPoint == coral.input_details.quantization[2]
\* round(x / scale + zero_point), kept inside the int8 range.
Quantized(x, scale, zero_point) ==
  Clamp8(np_round(FAddInt(FDiv(x, scale), zero_point)))
\* x is between the values of the least and the greatest int8 code.
Representable(x, scale, zero_point) ==
  /\ FLeq(dequantize_value(Whole(INT8_MIN), scale, zero_point), x)
  /\ FLeq(x, dequantize_value(Whole(INT8_MAX), scale, zero_point))

\* ---------------------------------------------------------------- C31
\* C31: on the int8 path, a float input x in the representable range comes
\* back from dequantizing the value fed to the model, with the same scale
\* and zero_point, to within one quantization step: |decode(encode(x)) - x|
\* <= scale.
C31_RoundTripWithinOneStep ==
  (FedInt8Model /\ Representable(coral.input_data.x, InScale, InZeroPoint))
    => FLeq(FDist(dequantize_value(coral.fed.x, InScale, InZeroPoint),
                  coral.input_data.x),
            InScale)

\* ---------------------------------------------------------------- C32
\* C32: when the model's input type is int8 and the caller gives floats, the
\* value handed to the backend is round(x / scale + zero_point) clamped to
\* [-128, 127]: not the float cut to an integer, and never wrapped around.
C32_Int8InputIsQuantized ==
  FedInt8Model
    => coral.fed.x = Whole(Quantized(coral.input_data.x, InScale, InZeroPoint))

\* ---------------------------------------------------------------- C33
\* The run is past the reshape of its input array.
PastReshape ==
  /\ bridge = "coral"
  /\ coral.input_array # NoTensor
  /\ coral.pc # "reshape"
SameCount == Count(coral.input_data.shape) = Count(coral.input_details.shape)
\* C33: an input of another shape than the declared one is reshaped to the
\* declared shape when the element counts agree (and that is the shape fed
\* to the interpreter); when they differ the run prints an error, exits
\* with status 1 and never invokes the interpreter.
C33_ReshapedOrRejected ==
  PastReshape
    => IF SameCount
       THEN /\ coral.input_array.shape = coral.input_details.shape
            /\ coral.invoked => coral.fed.shape = coral.input_details.shape
            /\ coral.exited => (coral.exit_status = 0 /\ coral.invoked)
       ELSE /\ coral.pc = "exited" /\ coral.exit_status = 1
            /\ DOMAIN coral.stdout = {"error"}
            /\ ~coral.invoked /\ coral.fed = NoTensor
\* Three elements for a model that declares (1, 2): rejected.
C33_Witness ==
  /\ PastReshape
  /\ coral.input_data.shape = <<3>> /\ coral.input_details.shape = <<1, 2>>
  /\ coral.pc = "exited" /\ coral.exit_status = 1 /\ ~coral.invoked


\* ---------------------------------------------------------------- C34
\* C34: when predict calls the backend, an input with one dimension fewer
\* than the model declares has been given a leading batch dimension of 1,
\* whatever its rank, and an input of the declared rank is passed with its
\* shape unchanged.
C34_BatchDimensionForEveryRank ==
  (bridge = "feed" /\ feed.called)
    => /\ Len(feed.input_shape) + 1 = feed.declared_rank
            => feed.passed = <<1>> \o feed.input_shape
       /\ Len(feed.input_shape) = feed.declared_rank
            => feed.passed = feed.input_shape


\* ---------------------------------------------------------------- C37
\* The backend call made for request i failed (an inference error of the
\* backend itself, answered 500 whatever the interleaving).
BackendFailed(i) ==
  \E c \in 1..Len(max_calls) : max_calls[c].at = i /\ ~max_calls[c].ok
ModelRoutes == {"/unload", "/predict", "/batch_predict"}
\* C37: when /unload of a model is handled concurrently with /predict,
\* /batch_predict or another /unload of the same model, every response is a
\* success or the 404 "not loaded" failure: no interleaving produces a 5xx
\* response (and with it an errors_total increment).
C37_UnloadRacesAnswered200Or404 ==
  bridge = "http"
  => \A j \in 1..Len(responses) :
       (requests[responses[j].req].route \in ModelRoutes
          /\ ~BackendFailed(responses[j].req))
       => responses[j].status \in {200, 404}

====
